---------------------------- MODULE Spec2Model ----------------------------
(***************************************************************************)
(* IngressKit: the tabular repair engine of the SDK                        *)
(* (sdk/python/ingresskit/repair.py, units.py) as a state machine.         *)
(*                                                                         *)
(* A Python str is a tuple of one-character strings, so that strip, lower, *)
(* the regular expressions, float() and the number formats are computed    *)
(* character by character as the code computes them.  A canonical field    *)
(* name is a TLA+ string; Chars gives its spelling.                        *)
(***************************************************************************)
EXTENDS Integers, Sequences, FiniteSets, TLC

\* ------------------------------------------------------------------------
\* Characters and the str methods the code uses
\* ------------------------------------------------------------------------

LowerLetters ==
  <<"a","b","c","d","e","f","g","h","i","j","k","l","m",
    "n","o","p","q","r","s","t","u","v","w","x","y","z">>

UpperLetters ==
  <<"A","B","C","D","E","F","G","H","I","J","K","L","M",
    "N","O","P","Q","R","S","T","U","V","W","X","Y","Z">>

DigitChars == <<"0","1","2","3","4","5","6","7","8","9">>

Range(s) == {s[i] : i \in DOMAIN s}

IsDigit(c) == c \in Range(DigitChars)

IsLowerLetter(c) == c \in Range(LowerLetters)

IsUpperLetter(c) == c \in Range(UpperLetters)

IsSpace(c) == c \in {" ", "\t", "\n", "\r"}

\* Python's None: a value no str equals.
None == <<"None">>

\* str.lower() and str.upper(), one character
LowerChar(c) ==
  IF IsUpperLetter(c)
    THEN LowerLetters[CHOOSE i \in DOMAIN UpperLetters : UpperLetters[i] = c]
    ELSE c

UpperChar(c) ==
  IF IsLowerLetter(c)
    THEN UpperLetters[CHOOSE i \in DOMAIN LowerLetters : LowerLetters[i] = c]
    ELSE c

Lower(s) == [i \in DOMAIN s |-> LowerChar(s[i])]

Upper(s) == [i \in DOMAIN s |-> UpperChar(s[i])]

\* str.strip(): drop the leading and the trailing whitespace
Strip(s) ==
  LET keep == {i \in DOMAIN s : ~IsSpace(s[i])}
  IN  IF keep = {} THEN <<>>
      ELSE LET lo == CHOOSE i \in keep : \A j \in keep : i <= j
               hi == CHOOSE i \in keep : \A j \in keep : j <= i
           IN  SubSeq(s, lo, hi)

\* re.sub(r"[^a-z0-9]+", " ", s): every maximal run of characters outside
\* a-z0-9 becomes one space.
SubNonAlnumRuns(s) ==
  LET bad(i) == ~(IsLowerLetter(s[i]) \/ IsDigit(s[i]))
      f[i \in 0..Len(s)] ==
        IF i = 0 THEN <<>>
        ELSE IF ~bad(i) THEN Append(f[i - 1], s[i])
        ELSE IF i > 1 /\ bad(i - 1) THEN f[i - 1]
        ELSE Append(f[i - 1], " ")
  IN  f[Len(s)]

\* re.sub(r"\s+", "_", s): every maximal run of whitespace becomes one "_".
SubSpaceRuns(s) ==
  LET f[i \in 0..Len(s)] ==
        IF i = 0 THEN <<>>
        ELSE IF ~IsSpace(s[i]) THEN Append(f[i - 1], s[i])
        ELSE IF i > 1 /\ IsSpace(s[i - 1]) THEN f[i - 1]
        ELSE Append(f[i - 1], "_")
  IN  f[Len(s)]

\* re.sub(r"\D", "", v)
OnlyDigits(v) == SelectSeq(v, IsDigit)

NumChar(c) == IsDigit(c) \/ c \in {".", "-"}

\* re.sub(r"[^0-9.\-]", "", v)
OnlyNumChars(v) == SelectSeq(v, NumChar)

IsLetter(c) == IsLowerLetter(c) \/ IsUpperLetter(c)

\* re.sub(r"[^A-Za-z]", "", v)
OnlyLetters(v) == SelectSeq(v, IsLetter)


\* ------------------------------------------------------------------------
\* The canonical schemas and the synonym table
\* ------------------------------------------------------------------------

\* The canonical field names, spelled out.
email == <<"e","m","a","i","l">>

phone == <<"p","h","o","n","e">>

first_name == <<"f","i","r","s","t","_","n","a","m","e">>

last_name == <<"l","a","s","t","_","n","a","m","e">>

company == <<"c","o","m","p","a","n","y">>

id == <<"i","d">>

amount == <<"a","m","o","u","n","t">>

currency == <<"c","u","r","r","e","n","c","y">>

occurred_at == <<"o","c","c","u","r","r","e","d","_","a","t">>

customer_id == <<"c","u","s","t","o","m","e","r","_","i","d">>

sku == <<"s","k","u">>

name == <<"n","a","m","e">>

price == <<"p","r","i","c","e">>

category == <<"c","a","t","e","g","o","r","y">>

weight_kg == <<"w","e","i","g","h","t","_","k","g">>

length_m == <<"l","e","n","g","t","h","_","m">>

CANONICAL_SCHEMAS ==
  [contacts |-> <<email, phone, first_name, last_name, company>>,
   transactions |-> <<id, amount, currency, occurred_at, customer_id>>,
   products |-> <<sku, name, price, currency, category, weight_kg, length_m>>]

\* In the dictionary's insertion order, the order _guess_header scans it in.
HEADER_SYNONYMS ==
  <<[canonical |-> email,
     syns |-> {<<"e","m","a","i","l">>,
                <<"e","-","m","a","i","l">>,
                <<"m","a","i","l">>,
                <<"e","m","a","i","l"," ","a","d","d","r","e","s","s">>}],
    [canonical |-> phone,
     syns |-> {<<"p","h","o","n","e">>,
                <<"p","h","o","n","e"," ","n","u","m","b","e","r">>,
                <<"t","e","l">>,
                <<"t","e","l","e","p","h","o","n","e">>}],
    [canonical |-> first_name,
     syns |-> {<<"f","i","r","s","t">>,
                <<"f","i","r","s","t"," ","n","a","m","e">>,
                <<"f","n","a","m","e">>,
                <<"g","i","v","e","n"," ","n","a","m","e">>}],
    [canonical |-> last_name,
     syns |-> {<<"l","a","s","t">>,
                <<"l","a","s","t"," ","n","a","m","e">>,
                <<"l","n","a","m","e">>,
                <<"s","u","r","n","a","m","e">>,
                <<"f","a","m","i","l","y"," ","n","a","m","e">>}],
    [canonical |-> company,
     syns |-> {<<"c","o","m","p","a","n","y">>,
                <<"o","r","g","a","n","i","z","a","t","i","o","n">>,
                <<"o","r","g">>,
                <<"e","m","p","l","o","y","e","r">>}],
    [canonical |-> id,
     syns |-> {<<"i","d">>,
                <<"t","x","n"," ","i","d">>,
                <<"t","r","a","n","s","a","c","t","i","o","n"," ","i","d">>}],
    [canonical |-> amount,
     syns |-> {<<"a","m","o","u","n","t">>,
                <<"t","o","t","a","l">>,
                <<"v","a","l","u","e">>,
                <<"a","m","o","u","n","t","_","c","e","n","t","s">>,
                <<"a","m","o","u","n","t"," ","(","u","s","d",")">>,
                <<"p","r","i","c","e">>}],
    [canonical |-> currency,
     syns |-> {<<"c","u","r","r","e","n","c","y">>,
                <<"c","u","r","r">>,
                <<"i","s","o"," ","c","u","r","r","e","n","c","y">>}],
    [canonical |-> occurred_at,
     syns |-> {<<"d","a","t","e">>,
                <<"o","c","c","u","r","r","e","d"," ","a","t">>,
                <<"t","i","m","e","s","t","a","m","p">>,
                <<"c","r","e","a","t","e","d">>,
                <<"t","i","m","e">>}],
    [canonical |-> customer_id,
     syns |-> {<<"c","u","s","t","o","m","e","r"," ","i","d">>,
                <<"c","u","s","t","o","m","e","r">>,
                <<"c","l","i","e","n","t"," ","i","d">>,
                <<"a","c","c","o","u","n","t"," ","i","d">>}],
    [canonical |-> sku,
     syns |-> {<<"s","k","u">>,
                <<"i","d">>,
                <<"p","r","o","d","u","c","t"," ","i","d">>,
                <<"c","o","d","e">>}],
    [canonical |-> name,
     syns |-> {<<"n","a","m","e">>,
                <<"t","i","t","l","e">>,
                <<"p","r","o","d","u","c","t"," ","n","a","m","e">>}],
    [canonical |-> price,
     syns |-> {<<"p","r","i","c","e">>,
                <<"a","m","o","u","n","t">>,
                <<"c","o","s","t">>}],
    [canonical |-> category,
     syns |-> {<<"c","a","t","e","g","o","r","y">>,
                <<"t","y","p","e">>,
                <<"g","r","o","u","p">>}],
    [canonical |-> weight_kg,
     syns |-> {<<"w","e","i","g","h","t">>,
                <<"m","a","s","s">>,
                <<"w","e","i","g","h","t","_","k","g">>}],
    [canonical |-> length_m,
     syns |-> {<<"l","e","n","g","t","h">>,
                <<"s","i","z","e">>,
                <<"h","e","i","g","h","t">>,
                <<"w","i","d","t","h">>,
                <<"d","e","p","t","h">>,
                <<"l","e","n","g","t","h","_","m">>}]>>

\* ------------------------------------------------------------------------
\* Header resolution
\* ------------------------------------------------------------------------

_slugify(s) ==
  LET s1 == Lower(Strip(s))
      s2 == Strip(SubNonAlnumRuns(s1))
  IN  SubSpaceRuns(s2)

\* re.match(r"^(.+?)\s*\(([^)]+)\)\s*$", header.strip()): the groups (base,
\* unit) of the match, or matched = FALSE.  The stripped text ends with ")",
\* the unit is what lies between it and a "(" with no ")" in between, and the
\* lazy base is the shortest prefix followed only by whitespace up to that "(".
HeaderUnitMatch(header) ==
  LET s == Strip(header)
      n == Len(s)
      OpenAt(k) == CHOOSE p \in (k + 1)..(n + 1) :
                     /\ p = n + 1 \/ ~IsSpace(s[p])
                     /\ \A j \in (k + 1)..(p - 1) : IsSpace(s[j])
      Fits(k) == LET p == OpenAt(k)
                 IN  /\ p <= n - 2
                     /\ s[p] = "("
                     /\ s[n] = ")"
                     /\ \A j \in (p + 1)..(n - 1) : s[j] # ")"
                     /\ \A j \in 1..k : s[j] # "\n"
      Ks == {k \in 1..n : Fits(k)}
  IN  IF Ks = {} THEN [matched |-> FALSE, base |-> <<>>, unit |-> <<>>]
      ELSE LET k == CHOOSE x \in Ks : \A y \in Ks : x <= y
           IN  [matched |-> TRUE,
                base |-> SubSeq(s, 1, k),
                unit |-> SubSeq(s, OpenAt(k) + 1, n - 1)]

\* {_slugify(x) for x in syns}, for each entry of HEADER_SYNONYMS
SynonymSlugs ==
  [k \in DOMAIN HEADER_SYNONYMS |-> {_slugify(x) : x \in HEADER_SYNONYMS[k].syns}]

\* for canonical, syns in HEADER_SYNONYMS.items():
\*     if canonical in schema and slug in {_slugify(x) for x in syns}: return canonical
SynonymHits(slug, schema) ==
  {k \in DOMAIN HEADER_SYNONYMS :
     /\ HEADER_SYNONYMS[k].canonical \in Range(schema)
     /\ slug \in SynonymSlugs[k]}

FirstSynonym(slug, schema) ==
  LET hits == SynonymHits(slug, schema)
  IN  HEADER_SYNONYMS[CHOOSE k \in hits : \A j \in hits : k <= j].canonical

\* _guess_header without "canonical in schema" in its two loops
GuessHeaderAnySchema(header, schema) ==
  LET slug == _slugify(header)
      m == HeaderUnitMatch(header)
      all == <<email, phone, first_name, last_name, company, id, amount, currency,
               occurred_at, customer_id, sku, name, price, category, weight_kg, length_m>>
  IN  IF slug \in Range(schema) THEN slug
      ELSE IF SynonymHits(slug, all) # {} THEN FirstSynonym(slug, all)
      ELSE IF m.matched /\ SynonymHits(_slugify(m.base), all) # {}
             THEN FirstSynonym(_slugify(m.base), all)
      ELSE None

\* _guess_header trying the exact rule on the base of a unit-bearing header too
GuessHeaderExactOnBase(header, schema) ==
  LET slug == _slugify(header)
      m == HeaderUnitMatch(header)
  IN  IF slug \in Range(schema) THEN slug
      ELSE IF SynonymHits(slug, schema) # {} THEN FirstSynonym(slug, schema)
      ELSE IF m.matched /\ _slugify(m.base) \in Range(schema) THEN _slugify(m.base)
      ELSE IF m.matched /\ SynonymHits(_slugify(m.base), schema) # {}
             THEN FirstSynonym(_slugify(m.base), schema)
      ELSE None

_guess_header(header, schema) ==
  LET slug == _slugify(header)
      m == HeaderUnitMatch(header)
  IN  IF slug \in Range(schema) THEN slug
      ELSE IF SynonymHits(slug, schema) # {} THEN FirstSynonym(slug, schema)
      ELSE IF m.matched /\ SynonymHits(_slugify(m.base), schema) # {}
             THEN FirstSynonym(_slugify(m.base), schema)
      ELSE None

_extract_header_unit(header) ==
  LET m == HeaderUnitMatch(header)
  IN  IF m.matched THEN Strip(m.unit) ELSE None

\* ------------------------------------------------------------------------
\* Numbers: float(), multiplication and the fixed-point formats
\* ------------------------------------------------------------------------
\* A float read from decimal text is kept exactly, as
\* (-1)^neg * mant * 10^(-exp).

DigitVal(c) == (CHOOSE i \in DOMAIN DigitChars : DigitChars[i] = c) - 1

DigitsToNat(d) ==
  LET f[i \in 0..Len(d)] == IF i = 0 THEN 0 ELSE f[i - 1] * 10 + DigitVal(d[i])
  IN  f[Len(d)]

Pow10(k) ==
  LET f[i \in 0..k] == IF i = 0 THEN 1 ELSE 10 * f[i - 1]
  IN  f[k]

\* The longest integer part float() still reads as a finite number has 309
\* digits (the largest float is about 1.8E308).
MaxFloatDigits == 309

\* float(t) for a text of digits, "." and "-" (what the code's re.sub leaves):
\* an optional leading "-", at least one digit, at most one ".".
\* raised = TRUE is the ValueError.  A number whose integer part has more than
\* MaxFloatDigits digits is read as infinity (inf = TRUE).
ParseFloat(t) ==
  LET neg == Len(t) > 0 /\ t[1] = "-"
      body == IF neg THEN Tail(t) ELSE t
      dots == {i \in DOMAIN body : body[i] = "."}
      digs == SelectSeq(body, IsDigit)
      ok == /\ \A i \in DOMAIN body : body[i] # "-"
            /\ Cardinality(dots) <= 1
            /\ Len(digs) >= 1
      exp == IF dots = {} THEN 0 ELSE Len(body) - (CHOOSE i \in dots : TRUE)
      int == SubSeq(digs, 1, Len(digs) - exp)
      lead == {i \in DOMAIN int : int[i] # "0"}
      intlen == IF lead = {} THEN 0
                ELSE Len(int) + 1 - (CHOOSE i \in lead : \A j \in lead : i <= j)
  IN  IF ~ok THEN [raised |-> TRUE, inf |-> FALSE, neg |-> FALSE, mant |-> 0, exp |-> 0]
      ELSE IF intlen > MaxFloatDigits
        THEN [raised |-> FALSE, inf |-> TRUE, neg |-> neg, mant |-> 0, exp |-> 0]
      ELSE [raised |-> FALSE, inf |-> FALSE, neg |-> neg,
            mant |-> DigitsToNat(digs), exp |-> exp]

NatToStr(n) ==
  LET f[k \in 0..n] == IF k < 10 THEN <<DigitChars[k + 1]>>
                       ELSE f[k \div 10] \o <<DigitChars[(k % 10) + 1]>>
  IN  f[n]

\* n as exactly w digits, zero-padded on the left (n < 10^w)
Padded(n, w) == [i \in 1..w |-> DigitChars[((n \div Pow10(w - i)) % 10) + 1]]

\* mant / 10^k rounded to the nearest integer, ties to even
RoundDiv(mant, k) ==
  LET p == Pow10(k)
      q == mant \div p
      r == mant % p
  IN  IF 2 * r > p \/ (2 * r = p /\ q % 2 = 1) THEN q + 1 ELSE q

\* f"{x:.<d>f}": the sign, the integer part, "." and d digits; "inf" for
\* infinity.  (A decimal tie is rounded here to even; Python rounds the double
\* nearest to the text.  The inputs of this model hold no tie.)
FormatFixed(x, d) ==
  LET q == IF x.exp <= d THEN x.mant * Pow10(d - x.exp)
           ELSE RoundDiv(x.mant, x.exp - d)
  IN  (IF x.neg THEN <<"-">> ELSE <<>>)
        \o (IF x.inf THEN <<"i","n","f">>
            ELSE NatToStr(q \div Pow10(d)) \o <<".">> \o Padded(q % Pow10(d), d))

\* value * factor, the factor being positive and finite
Times(x, factor) ==
  [raised |-> FALSE, inf |-> x.inf, neg |-> x.neg,
   mant |-> x.mant * factor.mant, exp |-> x.exp + factor.exp]

\* ------------------------------------------------------------------------
\* units.py
\* ------------------------------------------------------------------------

Dec(m, e) == [mant |-> m, exp |-> e]

LENGTH_UNITS ==
  (<<"m">> :> Dec(1, 0)) @@ (<<"m","e","t","e","r">> :> Dec(1, 0))
  @@ (<<"m","e","t","e","r","s">> :> Dec(1, 0))
  @@ (<<"k","m">> :> Dec(1000, 0))
  @@ (<<"k","i","l","o","m","e","t","e","r">> :> Dec(1000, 0))
  @@ (<<"k","i","l","o","m","e","t","e","r","s">> :> Dec(1000, 0))
  @@ (<<"f","t">> :> Dec(3048, 4)) @@ (<<"f","e","e","t">> :> Dec(3048, 4))
  @@ (<<"i","n","c","h">> :> Dec(254, 4)) @@ (<<"i","n">> :> Dec(254, 4))

MASS_UNITS ==
  (<<"k","g">> :> Dec(1, 0)) @@ (<<"k","i","l","o","g","r","a","m">> :> Dec(1, 0))
  @@ (<<"k","i","l","o","g","r","a","m","s">> :> Dec(1, 0))
  @@ (<<"g">> :> Dec(1, 3)) @@ (<<"g","r","a","m">> :> Dec(1, 3))
  @@ (<<"g","r","a","m","s">> :> Dec(1, 3))
  @@ (<<"l","b">> :> Dec(45359237, 8)) @@ (<<"l","b","s">> :> Dec(45359237, 8))
  @@ (<<"p","o","u","n","d">> :> Dec(45359237, 8))
  @@ (<<"p","o","u","n","d","s">> :> Dec(45359237, 8))

\* An error text f"<kind>:{detail}": the kind followed by the detail's characters.
Err(kind, detail) == <<kind>> \o detail

\* Both return the pair (value, error).
normalize_length(value, unit) ==
  LET u == Lower(Strip(unit))
  IN  IF u \in DOMAIN LENGTH_UNITS
        THEN <<Times(value, LENGTH_UNITS[u]), None>>
        ELSE <<None, Err("unknown_length_unit:", unit)>>

normalize_mass(value, unit) ==
  LET u == Lower(Strip(unit))
  IN  IF u \in DOMAIN MASS_UNITS
        THEN <<Times(value, MASS_UNITS[u]), None>>
        ELSE <<None, Err("unknown_mass_unit:", unit)>>

\* ------------------------------------------------------------------------
\* Dates: datetime.strptime for the formats the code tries, and the fallback
\* ------------------------------------------------------------------------

MonthAbbr ==
  << <<"j","a","n">>, <<"f","e","b">>, <<"m","a","r">>, <<"a","p","r">>,
     <<"m","a","y">>, <<"j","u","n">>, <<"j","u","l">>, <<"a","u","g">>,
     <<"s","e","p">>, <<"o","c","t">>, <<"n","o","v">>, <<"d","e","c">> >>

\* The formats of the loop in _coerce_value, in its order; a format is its
\* directives and literal characters.
DATE_FORMATS ==
  << <<"%Y", "-", "%m", "-", "%d">>,
     <<"%m", "/", "%d", "/", "%Y">>,
     <<"%Y", "/", "%m", "/", "%d">>,
     <<"%d", "-", "%b", "-", "%Y">>,
     <<"%d", "/", "%m", "/", "%Y">>,
     <<"%b", " ", "%d", ",", " ", "%Y">> >>

\* Whether the text t is one way to write the directive or literal tok:
\* %Y is \d\d\d\d, %m is 1[0-2]|0[1-9]|[1-9], %d is
\* 3[0-1]|[1-2]\d|0[1-9]|[1-9]| [1-9], %b is a month abbreviation in any case,
\* whitespace in a format is \s+, anything else is itself.
TokenFits(tok, t) ==
  LET n == Len(t)
      num == DigitsToNat(t)
      alldig == \A i \in DOMAIN t : IsDigit(t[i])
  IN  CASE tok = "%Y" -> n = 4 /\ alldig
        [] tok = "%m" -> \/ n = 2 /\ alldig /\ num \in 1..12
                         \/ n = 1 /\ alldig /\ num \in 1..9
        [] tok = "%d" -> \/ n = 2 /\ alldig /\ num \in 1..31
                         \/ n = 2 /\ t[1] = " " /\ IsDigit(t[2]) /\ t[2] # "0"
                         \/ n = 1 /\ alldig /\ num \in 1..9
        [] tok = "%b" -> n = 3 /\ Lower(t) \in Range(MonthAbbr)
        [] tok = " " -> n >= 1 /\ \A i \in DOMAIN t : IsSpace(t[i])
        [] OTHER -> t = <<tok>>

TokenValue(tok, t) ==
  CASE tok \in {"%Y", "%m"} -> DigitsToNat(t)
    [] tok = "%d" -> DigitsToNat(SelectSeq(t, IsDigit))
    [] tok = "%b" -> CHOOSE i \in DOMAIN MonthAbbr : MonthAbbr[i] = Lower(t)
    [] OTHER -> 0

\* The (year, month, day) readings of s[i..] under fmt[k..], the whole text used.
RECURSIVE StrpFrom(_, _, _, _)
StrpFrom(fmt, k, s, i) ==
  IF k > Len(fmt)
    THEN IF i = Len(s) + 1 THEN {[Y |-> 0, m |-> 0, d |-> 0]} ELSE {}
    ELSE LET tok == fmt[k]
             lens == {L \in 1..(Len(s) - i + 1) :
                        TokenFits(tok, SubSeq(s, i, i + L - 1))}
             put(r, L) ==
               LET val == TokenValue(tok, SubSeq(s, i, i + L - 1))
               IN  CASE tok = "%Y" -> [r EXCEPT !.Y = val]
                     [] tok \in {"%m", "%b"} -> [r EXCEPT !.m = val]
                     [] tok = "%d" -> [r EXCEPT !.d = val]
                     [] OTHER -> r
         IN  UNION {{put(r, L) : r \in StrpFrom(fmt, k + 1, s, i + L)} : L \in lens}

IsLeap(y) == (y % 4 = 0 /\ y % 100 # 0) \/ y % 400 = 0

DaysIn(y, m) ==
  IF m = 2 THEN (IF IsLeap(y) THEN 29 ELSE 28)
  ELSE IF m \in {4, 6, 9, 11} THEN 30 ELSE 31

\* The dates datetime.strptime(v, fmt) returns: none when it raises (no match,
\* or a day or year that is no date).
Strptime(v, fmt) ==
  {r \in StrpFrom(fmt, 1, v, 1) : r.Y >= 1 /\ r.d <= DaysIn(r.Y, r.m)}

\* date.isoformat()
IsoFormat(r) ==
  Padded(r.Y, 4) \o <<"-">> \o Padded(r.m, 2) \o <<"-">> \o Padded(r.d, 2)

\* dateutil.parser.parse(v), reached only by texts none of DATE_FORMATS reads.
\* The library is not part of the repository: of such texts it is taken to
\* read a full month name, day and year ("January 2, 2024") and to raise on
\* the others.
MonthNames ==
  << <<"j","a","n","u","a","r","y">>, <<"f","e","b","r","u","a","r","y">>,
     <<"m","a","r","c","h">>, <<"a","p","r","i","l">>, <<"m","a","y">>,
     <<"j","u","n","e">>, <<"j","u","l","y">>, <<"a","u","g","u","s","t">>,
     <<"s","e","p","t","e","m","b","e","r">>, <<"o","c","t","o","b","e","r">>,
     <<"n","o","v","e","m","b","e","r">>, <<"d","e","c","e","m","b","e","r">> >>

DateutilParse(v) ==
  LET fits(mi) ==
        LET nm == MonthNames[mi]
        IN  /\ Len(v) > Len(nm)
            /\ Lower(SubSeq(v, 1, Len(nm))) = nm
            /\ StrpFrom(<<" ", "%d", ",", " ", "%Y">>, 1, v, Len(nm) + 1) # {}
      hits == {mi \in DOMAIN MonthNames : fits(mi)}
  IN  IF hits = {} THEN {}
      ELSE LET mi == CHOOSE x \in hits : TRUE
               r == CHOOSE y \in StrpFrom(<<" ", "%d", ",", " ", "%Y">>, 1, v,
                                          Len(MonthNames[mi]) + 1) : TRUE
               full == [r EXCEPT !.m = mi]
           IN  IF full.Y >= 1 /\ full.d <= DaysIn(full.Y, full.m) THEN {full} ELSE {}

\* ------------------------------------------------------------------------
\* Value coercion
\* ------------------------------------------------------------------------

COMMON ==
  { <<"U","S","D">>, <<"E","U","R">>, <<"G","B","P">>, <<"J","P","Y">>,
    <<"C","A","D">>, <<"A","U","D">>, <<"I","N","R">> }

\* The first format of DATE_FORMATS that reads v, or 0.
FirstDateFormat(v) ==
  LET ok == {k \in DOMAIN DATE_FORMATS : Strptime(v, DATE_FORMATS[k]) # {}}
  IN  IF ok = {} THEN 0 ELSE CHOOSE k \in ok : \A j \in ok : k <= j

CoerceDate(v) ==
  LET k == FirstDateFormat(v)
  IN  IF k # 0
        THEN <<IsoFormat(CHOOSE r \in Strptime(v, DATE_FORMATS[k]) : TRUE), None>>
      ELSE IF DateutilParse(v) # {}
        THEN <<IsoFormat(CHOOSE r \in DateutilParse(v) : TRUE), None>>
      ELSE <<None, Err("unrecognized_date:", v)>>

CoerceDecimal(v) ==
  LET num == ParseFloat(OnlyNumChars(v))
  IN  IF num.raised THEN <<None, <<"coerce_error:ValueError">> >>
      ELSE <<FormatFixed(num, 2), None>>

CoerceCurrency(v) ==
  LET cur == Upper(OnlyLetters(v))
  IN  IF cur \in COMMON THEN <<cur, None>>
      ELSE IF 2 <= Len(cur) /\ Len(cur) <= 4 THEN <<cur, None>>
      ELSE <<None, Err("bad_currency:", v)>>

\* The pair (coerced, err).
_coerce_value(field, value) ==
  IF value = None THEN <<None, None>>
  ELSE LET v == Strip(value)
       IN  IF v = <<>> THEN <<None, None>>
           ELSE IF field \in {email} THEN <<Lower(v), None>>
           ELSE IF field \in {phone} THEN <<OnlyDigits(v), None>>
           ELSE IF field \in {amount, price} THEN CoerceDecimal(v)
           ELSE IF field \in {occurred_at} THEN CoerceDate(v)
           ELSE IF field \in {currency} THEN CoerceCurrency(v)
           ELSE IF field \in {id, customer_id, sku} THEN <<v, None>>
           ELSE IF field \in {name, category} THEN <<Strip(v), None>>
           ELSE <<v, None>>

\* ------------------------------------------------------------------------
\* The JSON contact normaliser of the self-hosted server (main_oss.py)
\* ------------------------------------------------------------------------
\* A JSON object is a function from its keys to its values; a value is a str
\* or None (null).

\* data.get(key)
DictGet(data, key) == IF key \in DOMAIN data THEN data[key] ELSE None

\* Python's truth of a str or None
Truthy(v) == v # None /\ v # <<>>

\* data.get(k1) or data.get(k2) or ... or default
FirstTruthy(data, keys, default) ==
  LET hits == {i \in DOMAIN keys : Truthy(DictGet(data, keys[i]))}
  IN  IF hits = {} THEN default
      ELSE DictGet(data, keys[CHOOSE i \in hits : \A j \in hits : i <= j])

\* s.split(sep, 1) of a text that holds sep: what lies before and after its
\* first occurrence
SplitOnce(s, sep) ==
  LET at == {i \in DOMAIN s : s[i] = sep}
      i == CHOOSE x \in at : \A y \in at : x <= y
  IN  <<SubSeq(s, 1, i - 1), SubSeq(s, i + 1, Len(s))>>

\* x or None
OrNone(x) == IF Truthy(x) THEN x ELSE None

\* main_oss.py 271-336; now is datetime.now(timezone.utc) at the call
normalize_contact_json(data, now) ==
  LET email_ == Lower(Strip(FirstTruthy(data, <<"email", "Email", "e-mail", "mail">>, <<>>)))
      phone_raw == Strip(FirstTruthy(data, <<"phone", "Phone", "telephone", "tel">>, <<>>))
      phone_ == IF phone_raw # <<>> THEN OnlyDigits(phone_raw) ELSE None
      name_ == Strip(FirstTruthy(data, <<"name", "Name", "full_name">>, <<>>))
      parts == IF "," \in Range(name_)
                 THEN LET p == SplitOnce(name_, ",")
                      IN  [first_name |-> Strip(p[2]), last_name |-> Strip(p[1])]
               ELSE IF " " \in Range(name_)
                 THEN LET p == SplitOnce(name_, " ")
                      IN  [first_name |-> p[1], last_name |-> p[2]]
               ELSE [first_name |-> name_, last_name |-> <<>>]
      company_ == FirstTruthy(data, <<"company", "Company", "organization", "org">>, None)
      trace == <<[op |-> "normalize_contact", timestamp |-> now]>>
               \o (IF Truthy(email_) THEN <<[op |-> "email_lowercase", field |-> "email"]>> ELSE <<>>)
               \o (IF Truthy(phone_) THEN <<[op |-> "phone_digits_only", field |-> "phone"]>> ELSE <<>>)
               \o (IF Truthy(name_) THEN <<[op |-> "parse_name", field |-> "name"]>> ELSE <<>>)
  IN  [email |-> OrNone(email_),
       phone |-> OrNone(phone_),
       first_name |-> OrNone(parts.first_name),
       last_name |-> OrNone(parts.last_name),
       company |-> company_,
       trace |-> trace]

\* ------------------------------------------------------------------------
\* The webhook server (main.py): JSON values, the clock's text, the three
\* normalisers
\* ------------------------------------------------------------------------
\* A JSON value as json.loads returns it: a str (a tuple of characters), None
\* for null, a number JNum(n), or a dict JObj(f), f a function from its keys.

JNum(n) == <<"num", n>>

JObj(f) == <<"obj", f>>

IsObj(v) == v # <<>> /\ v[1] = "obj"

IsNum(v) == v # <<>> /\ v[1] = "num"

IsStr(v) == v = <<>> \/ v[1] \notin {"num", "obj", "None"}

\* d.get(key, default) on a dict
Get(d, key, default) == IF key \in DOMAIN d[2] THEN d[2][key] ELSE default

\* Python's truth of a JSON value: None, "", 0 and {} are false
Truth(v) == v # None /\ v # <<>> /\ v # JNum(0) /\ v # JObj(<<>>)

\* x or default
Or(x, default) == IF Truth(x) THEN x ELSE default

\* str(v) of a str, of None and of a natural number; of a dict its repr, which
\* is not spelled out
Str(v) ==
  IF v = None THEN <<"N","o","n","e">>
  ELSE IF IsNum(v) THEN NatToStr(v[2])
  ELSE IF IsObj(v) THEN <<"{",".",".",".","}">>
  ELSE v

\* The placeholders the normalisers pass to get().
unknown == <<"u","n","k","n","o","w","n">>

message == <<"m","e","s","s","a","g","e">>

\* The civil date of the day number z (days since 1970-01-01) in the
\* proleptic Gregorian calendar, as datetime computes it.
CivilFromDays(z) ==
  LET s == z + 719468
      era == s \div 146097
      doe == s - era * 146097
      yoe == (doe - doe \div 1460 + doe \div 36524 - doe \div 146096) \div 365
      doy == doe - (365 * yoe + yoe \div 4 - yoe \div 100)
      mp == (5 * doy + 2) \div 153
      d == doy - (153 * mp + 2) \div 5 + 1
      m == IF mp < 10 THEN mp + 3 ELSE mp - 9
      y0 == yoe + era * 400
  IN  [Y |-> IF m <= 2 THEN y0 + 1 ELSE y0, m |-> m, d |-> d]

\* datetime.fromtimestamp(secs + micros / 10^6, tz=timezone.utc).isoformat()
IsoUtc(secs, micros) ==
  LET t == secs % 86400
  IN  IsoFormat(CivilFromDays(secs \div 86400))
        \o <<"T">> \o Padded(t \div 3600, 2) \o <<":">> \o Padded((t % 3600) \div 60, 2)
        \o <<":">> \o Padded(t % 60, 2)
        \o (IF micros = 0 THEN <<>> ELSE <<".">> \o Padded(micros, 6))
        \o <<"+","0","0",":","0","0">>

\* datetime.now(timezone.utc).isoformat(), the clock counting whole seconds
NowIso(now) == IsoUtc(now, 0)

\* float(ts): of a number itself, of a str of digits, "." and "-" what
\* ParseFloat reads, of any other str and of a dict an exception.  (The
\* exponent forms, "inf", "nan" and padded texts float() also reads are not
\* among the inputs.)
Float(ts) ==
  IF IsNum(ts)
    THEN [raised |-> FALSE, inf |-> FALSE, neg |-> FALSE, mant |-> ts[2], exp |-> 0]
  ELSE IF IsStr(ts) /\ OnlyNumChars(ts) = ts THEN ParseFloat(ts)
  ELSE [raised |-> TRUE, inf |-> FALSE, neg |-> FALSE, mant |-> 0, exp |-> 0]

\* The timestamp given is one _utc_ts converts: float() reads it and
\* fromtimestamp() accepts it (a time from 1970 on, with at most six decimals).
Converts(ts) ==
  LET x == Float(ts)
  IN  ts # None /\ ~x.raised /\ ~x.inf /\ ~x.neg /\ x.exp <= 6

\* main.py 36-42
_utc_ts(ts, now) ==
  IF ts = None THEN NowIso(now)
  ELSE IF ~Converts(ts) THEN NowIso(now)
  ELSE LET x == Float(ts)
           p == Pow10(x.exp)
       IN  IsoUtc(x.mant \div p, (x.mant % p) * Pow10(6 - x.exp))

\* {k: v for k, v in d.items() if k not in drop}
Without(d, drop) == [k \in (DOMAIN d[2]) \ drop |-> d[2][k]]

CanonicalEvent(event_id, source, when, actor, subject, action, metadata, trace) ==
  [event_id |-> event_id, source |-> source, occurred_at |-> when,
   actor |-> actor, subject |-> subject, action |-> action,
   metadata |-> metadata, trace |-> trace]

\* payload.get("data", {}).get("object", {}) of line 46
StripeObject(payload) == Get(Get(payload, "data", JObj(<<>>)), "object", JObj(<<>>))

\* normalize_stripe raises: a get() on what is no dict
StripeRaises(payload) ==
  \/ ~IsObj(payload)
  \/ ~IsObj(Get(payload, "data", JObj(<<>>)))
  \/ ~IsObj(StripeObject(payload))

\* normalize_stripe leaving customer among the metadata
NormalizeStripeKeepsCustomer(payload, now) ==
  LET obj == StripeObject(payload)
  IN  CanonicalEvent(
        Str(Get(payload, "id", None)),
        "stripe",
        _utc_ts(Get(payload, "created", None), now),
        [id |-> Get(obj, "customer", None)],
        [type |-> Get(obj, "object", unknown), id |-> Get(obj, "id", None)],
        Str(Get(payload, "type", unknown)),
        Without(obj, {"id", "object"}),
        <<[op |-> "map", field |-> "amount", from |-> "amount", to |-> "amount"]>>)

\* main.py 45-59
normalize_stripe(payload, now) ==
  LET obj == StripeObject(payload)
  IN  CanonicalEvent(
        Str(Get(payload, "id", None)),
        "stripe",
        _utc_ts(Get(payload, "created", None), now),
        [id |-> Get(obj, "customer", None)],
        [type |-> Get(obj, "object", unknown), id |-> Get(obj, "id", None)],
        Str(Get(payload, "type", unknown)),
        Without(obj, {"id", "object", "customer"}),
        <<[op |-> "map", field |-> "amount", from |-> "amount", to |-> "amount"]>>)

\* normalize_github raises: a get() on what is no dict, or an action that is
\* no str, which CanonicalEvent rejects
GithubRaises(payload) ==
  \/ ~IsObj(payload)
  \/ ~IsObj(Or(Get(payload, "issue", None), JObj(<<>>)))
  \/ ~IsObj(Or(Get(payload, "sender", None), JObj(<<>>)))
  \/ ~IsStr(Get(payload, "action", unknown))

\* main.py 62-76
normalize_github(payload, now) ==
  LET action == Get(payload, "action", unknown)
      issue == Or(Get(payload, "issue", None), JObj(<<>>))
      sender == Or(Get(payload, "sender", None), JObj(<<>>))
  IN  CanonicalEvent(
        Str(Get(payload, "id", <<>>)),
        "github",
        NowIso(now),
        [id |-> Get(sender, "id", None), login |-> Get(sender, "login", None)],
        [type |-> <<"i","s","s","u","e">>, id |-> Get(issue, "id", None),
         number |-> Get(issue, "number", None)],
        action,
        [title |-> Get(issue, "title", None), url |-> Get(issue, "html_url", None)],
        <<[op |-> "map", field |-> "title", from |-> "issue.title", to |-> "metadata.title"]>>)

\* normalize_slack raises: a get() on what is no dict, or an event type that
\* is no str
SlackRaises(payload) ==
  \/ ~IsObj(payload)
  \/ ~IsObj(Get(payload, "event", JObj(<<>>)))
  \/ ~IsStr(Get(Get(payload, "event", JObj(<<>>)), "type", message))

\* main.py 79-90
normalize_slack(payload, now) ==
  LET ev == Get(payload, "event", JObj(<<>>))
  IN  CanonicalEvent(
        Str(Get(payload, "event_id", <<>>)),
        "slack",
        _utc_ts(Get(payload, "event_time", None), now),
        [id |-> Get(ev, "user", None)],
        [type |-> Get(ev, "type", message), channel |-> Get(ev, "channel", None)],
        Get(ev, "type", message),
        Without(ev, {"user", "channel", "type"}),
        <<[op |-> "map", field |-> "text", from |-> "event.text", to |-> "metadata.text"]>>)

\* main.py 146-152
re_digits(v) ==
  IF v = <<>> THEN None
  ELSE IF OnlyDigits(v) = <<>> THEN None ELSE OnlyDigits(v)

\* main.py 121-141: the contacts branch of json_normalize; data is a dict of
\* str and None values
ContactRecord(data) ==
  LET email_ == Lower(Strip(FirstTruthy(data, <<"email", "Email">>, <<>>)))
      phone_ == Strip(FirstTruthy(data, <<"phone", "Phone">>, <<>>))
      name_ == Strip(FirstTruthy(data, <<"name", "Name">>, <<>>))
      parts == IF "," \in Range(name_)
                 THEN LET p == SplitOnce(name_, ",")
                      IN  [first |-> Strip(p[2]), last |-> Strip(p[1])]
               ELSE IF " " \in Range(name_)
                 THEN LET p == SplitOnce(name_, " ")
                      IN  [first |-> p[1], last |-> p[2]]
               ELSE [first |-> <<>>, last |-> <<>>]
  IN  [email |-> OrNone(email_),
       phone |-> re_digits(phone_),
       first_name |-> OrNone(parts.first),
       last_name |-> OrNone(parts.last),
       company |-> None,
       trace |-> <<[op |-> "lower", field |-> "email"],
                   [op |-> "digits", field |-> "phone"],
                   [op |-> "split_name", field |-> "name"]>>]

\* ------------------------------------------------------------------------
\* The inputs
\* ------------------------------------------------------------------------
\* Repairer(schema=...) takes any list of field names: besides the three
\* built-in schemas, one list a caller passes itself.
INVOICES == <<id, amount, price, currency>>

\* The most data rows of an input file.
MaxRows == 6

\* The data rows of a file that are chosen freely from the sheet's rows; the
\* rows after them repeat the file with a period of two rows.
FreeRows == 2

\* An amount too large for a float: 1 followed by MaxFloatDigits zeros.
HugeAmount == [i \in 1..(MaxFloatDigits + 1) |-> IF i = 1 THEN "1" ELSE "0"]

\* headers "Email", "E-Mail", "Phone", "First Name", "Title"
\* row     "A@B.COM", "x@y.com", "(555) 123-4567", "Jane", "Dr"
\* row     " q@r.s ", "", "n/a"
ContactsSheet ==
  [schema |-> CANONICAL_SCHEMAS.contacts,
   headers |-> << <<"E","m","a","i","l">>,
                 <<"E","-","M","a","i","l">>,
                 <<"P","h","o","n","e">>,
                 <<"F","i","r","s","t"," ","N","a","m","e">>,
                 <<"T","i","t","l","e">> >>,
   pool |-> { << <<"A","@","B",".","C","O","M">>,
                 <<"x","@","y",".","c","o","m">>,
                 <<"(","5","5","5",")"," ","1","2","3","-","4","5","6","7">>,
                 <<"J","a","n","e">>,
                 <<"D","r">> >>,
              << <<" ","q","@","r",".","s"," ">>,
                 <<>>,
                 <<"n","/","a">> >> }]

\* headers "Txn ID", "Total", "Curr", "Date"
\* row     "T1", "$1,299.5", "usd", "Jan 2, 2024"
\* row     "T2", "abc", "$", "not a date", "extra"
TransactionsSheet ==
  [schema |-> CANONICAL_SCHEMAS.transactions,
   headers |-> << <<"T","x","n"," ","I","D">>,
                 <<"T","o","t","a","l">>,
                 <<"C","u","r","r">>,
                 <<"D","a","t","e">> >>,
   pool |-> { << <<"T","1">>,
                 <<"$","1",",","2","9","9",".","5">>,
                 <<"u","s","d">>,
                 <<"J","a","n"," ","2",","," ","2","0","2","4">> >>,
              << <<"T","2">>,
                 <<"a","b","c">>,
                 <<"$">>,
                 <<"n","o","t"," ","a"," ","d","a","t","e">>,
                 <<"e","x","t","r","a">> >> }]

\* headers "id", "Timestamp", "Amount (USD)"
\* row     "7", "13/01/2024", "-3"
\* row     "8", "January 2, 2024", HugeAmount
TransactionsDates ==
  [schema |-> CANONICAL_SCHEMAS.transactions,
   headers |-> << <<"i","d">>,
                 <<"T","i","m","e","s","t","a","m","p">>,
                 <<"A","m","o","u","n","t"," ","(","U","S","D",")">> >>,
   pool |-> { << <<"7">>,
                 <<"1","3","/","0","1","/","2","0","2","4">>,
                 <<"-","3">> >>,
              << <<"8">>,
                 <<"J","a","n","u","a","r","y"," ","2",","," ","2","0","2","4">>,
                 HugeAmount >> }]

\* headers "Weight (lb)", "Length (ft)", "SKU", "Name"
\* row     "2.2", "3", "K1", "Widget"
\* row     "abc", "x"
ProductsSheet ==
  [schema |-> CANONICAL_SCHEMAS.products,
   headers |-> << <<"W","e","i","g","h","t"," ","(","l","b",")">>,
                 <<"L","e","n","g","t","h"," ","(","f","t",")">>,
                 <<"S","K","U">>,
                 <<"N","a","m","e">> >>,
   pool |-> { << <<"2",".","2">>,
                 <<"3">>,
                 <<"K","1">>,
                 <<"W","i","d","g","e","t">> >>,
              << <<"a","b","c">>,
                 <<"x">> >> }]

\* headers "Product ID", "Price", "Mass (stone)", "Height", "Size ( )"
\* row     "P1", "free", "5", "tall", ""
\* row     (a blank line)
ProductsUnits ==
  [schema |-> CANONICAL_SCHEMAS.products,
   headers |-> << <<"P","r","o","d","u","c","t"," ","I","D">>,
                 <<"P","r","i","c","e">>,
                 <<"M","a","s","s"," ","(","s","t","o","n","e",")">>,
                 <<"H","e","i","g","h","t">>,
                 <<"S","i","z","e"," ","("," ",")">> >>,
   pool |-> { << <<"P","1">>,
                 <<"f","r","e","e">>,
                 <<"5">>,
                 <<"t","a","l","l">>,
                 <<>> >>,
              << >> }]

\* headers "ID", "Price (usd)", "Price", "Currency"
\* row     "I1", "10", "7.5", "eur"
\* row     "I2", "", "n/a", "Euros"
InvoicesSheet ==
  [schema |-> INVOICES,
   headers |-> << <<"I","D">>,
                 <<"P","r","i","c","e"," ","(","u","s","d",")">>,
                 <<"P","r","i","c","e">>,
                 <<"C","u","r","r","e","n","c","y">> >>,
   pool |-> { << <<"I","1">>,
                 <<"1","0">>,
                 <<"7",".","5">>,
                 <<"e","u","r">> >>,
              << <<"I","2">>,
                 <<>>,
                 <<"n","/","a">>,
                 <<"E","u","r","o","s">> >> }]

Sheets == {ContactsSheet, TransactionsSheet, TransactionsDates, ProductsSheet, ProductsUnits, InvoicesSheet}
\* The JSON objects posted to /v1/json/normalize.
\*   {"Name": "Doe, Jane", "Email": "X@Y.Z"}
\*   {"name": "Jane Doe", "phone": "(555) 123-4567", "company": "Acme"}
\*   {"full_name": "Cher", "tel": "n/a", "mail": null}
\*   {}
ContactBodies ==
  { ("Name" :> <<"D","o","e",","," ","J","a","n","e">>
      @@ "Email" :> <<"X","@","Y",".","Z">>),
    ("name" :> <<"J","a","n","e"," ","D","o","e">>
      @@ "phone" :> <<"(","5","5","5",")"," ","1","2","3","-","4","5","6","7">>
      @@ "company" :> <<"A","c","m","e">>),
    ("full_name" :> <<"C","h","e","r">>
      @@ "tel" :> <<"n","/","a">>
      @@ "mail" :> None),
    <<>> }

\* The bodies posted to /v1/webhooks/ingest, as request.json() returns them.
\*   P1 {"id": "evt_1", "type": "charge.succeeded", "created": 1700000000,
\*       "data": {"object": {"id": "ch_1", "object": "charge", "customer": "cus_1",
\*                           "amount": 1299, "currency": "usd"}}}
\*   P2 {"id": "evt_2", "created": "soon", "data": {"object": {"id": "ch_2", "amount": 5}}}
\*   P3 {"type": "payout.paid", "created": "86400.5", "data": {"object": {}}}
\*   G1 {"action": "opened", "issue": {"id": 11, "number": 42,
\*       "title": "Bug: crash on launch", "html_url": "https://h/42"},
\*       "sender": {"id": 7, "login": "octocat"}}
\*   G2 {"action": "closed", "pull_request": {"id": 12, "number": 43, "title": "Fix crash"},
\*       "sender": {"id": 7, "login": "octocat"}}
\*   L1 {"event_id": "Ev1", "event_time": 1700000000,
\*       "event": {"type": "reaction_added", "user": "U1", "channel": "C1", "text": "hi"}}
\*   L2 {"event": {"text": "hi"}}
\*   E0 {}
\*   N1 "ping"           (JSON, but no object)
StripeCharge ==
  JObj("id" :> <<"e","v","t","_","1">> @@ "type" :> <<"c","h","a","r","g","e",".","s","u","c","c","e","e","d","e","d">> @@ "created" :> JNum(1700000000)
       @@ "data" :> JObj("object" :> JObj("id" :> <<"c","h","_","1">> @@ "object" :> <<"c","h","a","r","g","e">>
                                          @@ "customer" :> <<"c","u","s","_","1">>
                                          @@ "amount" :> JNum(1299)
                                          @@ "currency" :> <<"u","s","d">>)))

StripeBare ==
  JObj("id" :> <<"e","v","t","_","2">> @@ "created" :> <<"s","o","o","n">>
       @@ "data" :> JObj("object" :> JObj("id" :> <<"c","h","_","2">> @@ "amount" :> JNum(5))))

StripePayout ==
  JObj("type" :> <<"p","a","y","o","u","t",".","p","a","i","d">> @@ "created" :> <<"8","6","4","0","0",".","5">>
       @@ "data" :> JObj("object" :> JObj(<<>>)))

GithubIssue ==
  JObj("action" :> <<"o","p","e","n","e","d">>
       @@ "issue" :> JObj("id" :> JNum(11) @@ "number" :> JNum(42)
                          @@ "title" :> <<"B","u","g",":"," ","c","r","a","s","h"," ","o","n"," ","l","a","u","n","c","h">>
                          @@ "html_url" :> <<"h","t","t","p","s",":","/","/","h","/","4","2">>)
       @@ "sender" :> JObj("id" :> JNum(7) @@ "login" :> <<"o","c","t","o","c","a","t">>))

GithubPull ==
  JObj("action" :> <<"c","l","o","s","e","d">>
       @@ "pull_request" :> JObj("id" :> JNum(12) @@ "number" :> JNum(43)
                                 @@ "title" :> <<"F","i","x"," ","c","r","a","s","h">>)
       @@ "sender" :> JObj("id" :> JNum(7) @@ "login" :> <<"o","c","t","o","c","a","t">>))

SlackReaction ==
  JObj("event_id" :> <<"E","v","1">> @@ "event_time" :> JNum(1700000000)
       @@ "event" :> JObj("type" :> <<"r","e","a","c","t","i","o","n","_","a","d","d","e","d">> @@ "user" :> <<"U","1">>
                          @@ "channel" :> <<"C","1">> @@ "text" :> <<"h","i">>))

SlackBare == JObj("event" :> JObj("text" :> <<"h","i">>))

Payloads ==
  {StripeCharge, StripeBare, StripePayout, GithubIssue, GithubPull,
   SlackReaction, SlackBare, JObj(<<>>), <<"p","i","n","g">>}

\* A request body: text that is JSON, with what request.json() returns for
\* it, or text that is not.
InvalidBody == [valid |-> FALSE, data |-> <<>>]

WebhookBodies == {[valid |-> TRUE, data |-> p] : p \in Payloads} \cup {InvalidBody}

\* The values of the query parameter source
Sources == {"stripe", "github", "slack", "gitlab"}

\* The bodies posted to /v1/json/normalize of main.py: the objects of
\* ContactBodies and
\*   {"name": "Cher", "Phone": "n/a"}
\*   {"name": "Jane  van Doe", "email": " X@Y.Z "}
\*   {"name": "Jane\tDoe", "phone": "555 0100"}
\*   "ping"
ContactObjects ==
  {JObj(c) : c \in ContactBodies} \cup
  {JObj("name" :> <<"C","h","e","r">> @@ "Phone" :> <<"n","/","a">>),
   JObj("name" :> <<"J","a","n","e"," "," ","v","a","n"," ","D","o","e">> @@ "email" :> <<" ","X","@","Y",".","Z"," ">>),
   JObj("name" :> <<"J","a","n","e","\t","D","o","e">> @@ "phone" :> <<"5","5","5"," ","0","1","0","0">>),
   <<"p","i","n","g">>}

ContactPosts == {[valid |-> TRUE, data |-> p] : p \in ContactObjects} \cup {InvalidBody}

\* The values of the query parameter schema
SchemaNames == {"contacts", "orders"}

\* What csv.reader returns for a file: nothing for an empty file, else the
\* header row and up to MaxRows data rows.
FilesOf(sheet) ==
  {<<>>} \cup
  UNION {{<<sheet.headers>> \o data :
            data \in {d \in [1..n -> sheet.pool] :
                        \A i \in (FreeRows + 1)..n : d[i] = d[i - 2]}} : n \in 0..MaxRows}

\* ------------------------------------------------------------------------
\* Repairer.repair_file, RepairResult.save and the command line
\* ------------------------------------------------------------------------

VARIABLES
  schema,        \* Repairer.schema
  rows,          \* list(csv.reader(f)) of the file being repaired
  pc,            \* where repair_file is
  raw_headers,   \* rows[0]
  header_map,    \* header_map[i + 1] is the code's header_map[i]
  ri,            \* the data row of the outer loop, rows[ri + 1] being r
  ci,            \* the cell of the inner loop, ci - 1 being the code's i
  out,           \* the record being built
  before,        \* the raw cells written so far, by field
  after,         \* the coerced cells written so far, by field
  out_rows,
  sample_diffs,
  result,        \* the RepairResult returned, None before
  saved,         \* the rows of the file RepairResult.save wrote, None before
  run,           \* 1 the first run, 2 a run on the saved file, 3 a run on the same file
  first,         \* the first run's RepairResult, None during it
  clock,         \* the server's time, datetime.now(timezone.utc)
  body,          \* the body posted to /v1/json/normalize
  replies,       \* the server's answers so far
  request,       \* the request main.py's server handled last
  response,      \* its answer to it
  file,          \* the metered server's balances.json
  tmp,           \* the file balances.tmp beside it
  pending,       \* the metered server's requests whose body is awaited, in order of arrival
  handler,       \* the handler the metered server is running, with its store write
  served         \* the metered server's answers so far

\* the repair engine's variables and the server's
rvars == <<schema, rows, pc, raw_headers, header_map, ri, ci, out, before, after,
           out_rows, sample_diffs, result, saved, run, first>>

\* the webhook server's variables (main.py)
wvars == <<request, response>>

\* the metered server's variables (main_saas_backup.py)
kvars == <<file, tmp, pending, handler, served>>

svars == <<clock, body, replies, wvars, kvars>>

vars == <<rvars, svars>>

\* sample_diffs keeps the pairs of the first rows only: "if len(sample_diffs) < 5"
SampleCap == 5

EmptyDict == <<>>

\* d[k] = v on a dict
DictSet(d, k, v) == (k :> v) @@ d

\* header_map.get(i), i counted from 0
HeaderMapGet(hm, i) == IF i + 1 \in DOMAIN hm THEN hm[i + 1] ELSE None

\* {k: None for k in self.schema}
BlankRecord(sch) == [k \in Range(sch) |-> None]

RepairResult(rows_out, summary, diffs) ==
  [rows_out |-> rows_out, summary |-> summary, sample_diffs |-> diffs]

\* The engine before repair_file is entered.
InitRepair ==
  /\ pc = "open"
  /\ raw_headers = <<>>
  /\ header_map = <<>>
  /\ ri = 0
  /\ ci = 0
  /\ out = EmptyDict
  /\ before = EmptyDict
  /\ after = EmptyDict
  /\ out_rows = <<>>
  /\ sample_diffs = <<>>
  /\ result = None
  /\ saved = None
  /\ run = 1
  /\ first = None

\* No request handled yet.
NoRequest == [path |-> "", param |-> "", body |-> InvalidBody]

NoResponse == [status |-> 0]

\* No file balances.tmp.
NoTmp == [state |-> "absent", data |-> <<>>]

\* The metered server runs no handler.
Idle == [pc |-> "idle"]

\* main_saas_backup.py 102, 105-114: KEYS = KeyStore(balances_file) on a file
\* that holds the balances given, no seed in the environment
InitStore(balances) ==
  /\ file = [complete |-> TRUE, data |-> balances]
  /\ tmp = NoTmp
  /\ pending = <<>>
  /\ handler = Idle
  /\ served = <<>>

\* The servers with no request answered yet.
InitServer ==
  /\ clock = 0
  /\ replies = <<>>
  /\ request = NoRequest
  /\ response = NoResponse
  /\ InitStore(<<>>)

\* The command line on a file; the server idle.
Init ==
  /\ \E sheet \in Sheets :
       /\ schema = sheet.schema
       /\ rows \in FilesOf(sheet)
  /\ InitRepair
  /\ InitServer
  /\ body = [valid |-> TRUE, data |-> <<>>]

\* repair.py 166-167: an empty file
ReturnEmpty ==
  /\ pc = "open"
  /\ rows = <<>>
  /\ result' = RepairResult(<<>>, [schema |-> schema, rows_in |-> 0, rows_out |-> 0], <<>>)
  /\ pc' = "returned"
  /\ UNCHANGED <<schema, rows, raw_headers, header_map, ri, ci, out, before, after,
                 out_rows, sample_diffs, saved, run, first, svars>>

\* repair.py 169-171, 176-177
ReadHeaders ==
  /\ pc = "open"
  /\ rows # <<>>
  /\ raw_headers' = rows[1]
  /\ header_map' = <<>>
  /\ out_rows' = <<>>
  /\ sample_diffs' = <<>>
  /\ ri' = 1
  /\ pc' = IF rows[1] = <<>> THEN "row" ELSE "map"
  /\ UNCHANGED <<schema, rows, ci, out, before, after, result, saved, run, first, svars>>

\* repair.py 172-173: one turn of the loop over the headers
MapHeader ==
  /\ pc = "map"
  /\ LET i == Len(header_map)
     IN  /\ header_map' = Append(header_map, _guess_header(raw_headers[i + 1], schema))
         /\ pc' = IF i + 1 = Len(raw_headers) THEN "row" ELSE "map"
  /\ UNCHANGED <<schema, rows, raw_headers, ri, ci, out, before, after,
                 out_rows, sample_diffs, result, saved, run, first, svars>>

\* repair.py 179-182: the next data row
BeginRow ==
  /\ pc = "row"
  /\ ri <= Len(rows) - 1
  /\ out' = BlankRecord(schema)
  /\ before' = EmptyDict
  /\ after' = EmptyDict
  /\ ci' = 1
  /\ pc' = "cell"
  /\ UNCHANGED <<schema, rows, raw_headers, header_map, ri,
                 out_rows, sample_diffs, result, saved, run, first, svars>>

\* repair.py 183-186: a cell under no mapped header
SkipCell ==
  /\ pc = "cell"
  /\ ci <= Len(rows[ri + 1])
  /\ HeaderMapGet(header_map, ci - 1) = None
  /\ ci' = ci + 1
  /\ UNCHANGED <<schema, rows, pc, raw_headers, header_map, ri, out, before, after,
                 out_rows, sample_diffs, result, saved, run, first, svars>>

\* repair.py 187-193: a cell under a mapped header
CoerceCell ==
  /\ pc = "cell"
  /\ ci <= Len(rows[ri + 1])
  /\ LET target == HeaderMapGet(header_map, ci - 1)
         val == rows[ri + 1][ci]
         coerced == _coerce_value(target, val)[1]
     IN  /\ target # None
         /\ before' = DictSet(before, target, val)
         /\ out' = DictSet(out, target, coerced)
         /\ after' = DictSet(after, target, coerced)
         /\ IF target \in {weight_kg, length_m}
              THEN pc' = "unit" /\ ci' = ci
              ELSE pc' = "cell" /\ ci' = ci + 1
  /\ UNCHANGED <<schema, rows, raw_headers, header_map, ri,
                 out_rows, sample_diffs, result, saved, run, first, svars>>

\* float(re.sub(r"[^0-9.\-]", "", val)) under try/except: num, or raised
UnitNumber(val) == ParseFloat(OnlyNumChars(val))

\* What lines 194-208 leave in out[target] and after[target], given what
\* line 189 put there.
UnitConverted(target, header, val, current) ==
  LET unit == _extract_header_unit(header)
      num == UnitNumber(val)
      conv == IF target = weight_kg THEN normalize_mass(num, unit)
              ELSE normalize_length(num, unit)
  IN  IF unit = None \/ unit = <<>> THEN current
      ELSE IF num.raised THEN current
      ELSE IF conv[2] # None THEN None
      ELSE FormatFixed(conv[1], 6)

\* repair.py 193-208: the unit of a weight or length header
ConvertUnit ==
  /\ pc = "unit"
  /\ LET target == HeaderMapGet(header_map, ci - 1)
         val == rows[ri + 1][ci]
         new == UnitConverted(target, raw_headers[ci], val, out[target])
     IN  /\ out' = DictSet(out, target, new)
         /\ after' = DictSet(after, target, new)
  /\ ci' = ci + 1
  /\ pc' = "cell"
  /\ UNCHANGED <<schema, rows, raw_headers, header_map, ri, before,
                 out_rows, sample_diffs, result, saved, run, first, svars>>

\* AppendRow putting the record in front: out_rows.insert(0, out)
AppendRowInFront ==
  /\ pc = "cell"
  /\ ci > Len(rows[ri + 1])
  /\ out_rows' = <<out>> \o out_rows
  /\ sample_diffs' = IF Len(sample_diffs) < SampleCap
                       THEN Append(sample_diffs, [before |-> before, after |-> after])
                       ELSE sample_diffs
  /\ ri' = ri + 1
  /\ pc' = "row"
  /\ UNCHANGED <<schema, rows, raw_headers, header_map, ci, out, before, after,
                 result, saved, run, first, svars>>

\* AppendRow with "<=" for "<" in the test of line 210
AppendRowOneMore ==
  /\ pc = "cell"
  /\ ci > Len(rows[ri + 1])
  /\ out_rows' = Append(out_rows, out)
  /\ sample_diffs' = IF Len(sample_diffs) <= SampleCap
                       THEN Append(sample_diffs, [before |-> before, after |-> after])
                       ELSE sample_diffs
  /\ ri' = ri + 1
  /\ pc' = "row"
  /\ UNCHANGED <<schema, rows, raw_headers, header_map, ci, out, before, after,
                 result, saved, run, first, svars>>

\* repair.py 209-211: the row is done
AppendRow ==
  /\ pc = "cell"
  /\ ci > Len(rows[ri + 1])
  /\ out_rows' = Append(out_rows, out)
  /\ sample_diffs' = IF Len(sample_diffs) < SampleCap
                       THEN Append(sample_diffs, [before |-> before, after |-> after])
                       ELSE sample_diffs
  /\ ri' = ri + 1
  /\ pc' = "row"
  /\ UNCHANGED <<schema, rows, raw_headers, header_map, ci, out, before, after,
                 result, saved, run, first, svars>>

\* "rows_in": max(0, len(rows) - 1)
RowsIn(rs) == IF Len(rs) - 1 > 0 THEN Len(rs) - 1 ELSE 0

\* MappedHeaders reporting the resolved headers only
MappedHeadersResolvedOnly(hm, headers) ==
  [i \in {j \in 0..(Len(headers) - 1) : hm[j + 1] # None} |-> hm[i + 1]]

\* "mapped_headers": {i: header_map[i] for i in range(len(raw_headers))}
MappedHeaders(hm, headers) == [i \in 0..(Len(headers) - 1) |-> hm[i + 1]]

\* repair.py 213-220
Summarize ==
  /\ pc = "row"
  /\ ri > Len(rows) - 1
  /\ result' = RepairResult(out_rows,
                            [schema |-> schema,
                             rows_in |-> RowsIn(rows),
                             rows_out |-> Len(out_rows),
                             mapped_headers |-> MappedHeaders(header_map, raw_headers)],
                            sample_diffs)
  /\ pc' = "returned"
  /\ UNCHANGED <<schema, rows, raw_headers, header_map, ri, ci, out, before, after,
                 out_rows, sample_diffs, saved, run, first, svars>>

\* writer.writerow({k: ("" if v is None else v) for k, v in r.items()}) under
\* DictWriter(fieldnames): the cells of one line, in the order of fieldnames
RenderRow(r, fieldnames) ==
  [j \in DOMAIN fieldnames |-> IF r[fieldnames[j]] = None THEN <<>> ELSE r[fieldnames[j]]]

\* The file RepairResult.save writes, as csv.reader reads it back: the header
\* line of the schema, then one line per record.
Rendered(res) ==
  <<res.summary.schema>>
    \o [i \in DOMAIN res.rows_out |-> RenderRow(res.rows_out[i], res.summary.schema)]

\* repair.py 131-138, called by cli.py 26
Save ==
  /\ pc = "returned"
  /\ saved' = Rendered(result)
  /\ pc' = "saved"
  /\ UNCHANGED <<schema, rows, raw_headers, header_map, ri, ci, out, before, after,
                 out_rows, sample_diffs, result, run, first, svars>>

\* cli.py 24-25 again, on the file the first run saved
RepairSaved ==
  /\ pc = "saved"
  /\ run = 1
  /\ first' = result
  /\ rows' = saved
  /\ run' = 2
  /\ pc' = "open"
  /\ result' = None
  /\ saved' = None
  /\ UNCHANGED <<schema, raw_headers, header_map, ri, ci, out, before, after,
                 out_rows, sample_diffs, svars>>

Next ==
  \/ ReturnEmpty
  \/ ReadHeaders
  \/ MapHeader
  \/ BeginRow
  \/ SkipCell
  \/ CoerceCell
  \/ ConvertUnit
  \/ AppendRow
  \/ Summarize
  \/ Save
  \/ RepairSaved

Spec == Init /\ [][Next]_vars

\* ------------------------------------------------------------------------
\* Two runs on the same input: the engine again on the same file, and the
\* server asked twice to normalise the same body
\* ------------------------------------------------------------------------

\* The most requests the server answers.
MaxCalls == 2

\* The latest time of the server's clock.
MaxClock == 2

\* cli.py 24-25 again, on the same file
RepairAgain ==
  /\ pc = "returned"
  /\ run = 1
  /\ first' = result
  /\ run' = 3
  /\ pc' = "open"
  /\ result' = None
  /\ UNCHANGED <<schema, rows, raw_headers, header_map, ri, ci, out, before, after,
                 out_rows, sample_diffs, saved, svars>>

\* Time passes.
Tick ==
  /\ clock < MaxClock
  /\ clock' = clock + 1
  /\ UNCHANGED <<body, replies, rvars, wvars, kvars>>

\* main_oss.py 339-358: POST /v1/json/normalize?schema=<name>
NormalizeJson ==
  /\ Len(replies) < MaxCalls
  /\ \E name_ \in {"contacts", "orders"} :
       replies' = Append(replies,
         IF ~body.valid
           THEN [status |-> 400, detail |-> "Invalid JSON payload"]
         ELSE IF name_ = "contacts"
           THEN [status |-> 200, json |-> normalize_contact_json(body.data, clock)]
         ELSE [status |-> 400,
               detail |-> "Unsupported schema: " \o name_ \o ". Supported: contacts"])
  /\ UNCHANGED <<clock, body, rvars, wvars, kvars>>

\* One small file for the engine, any body for the server.
InitTwice ==
  /\ \E sheet \in {TransactionsSheet, ProductsSheet} :
       /\ schema = sheet.schema
       /\ rows \in {f \in FilesOf(sheet) : Len(f) <= 2}
  /\ InitRepair
  /\ InitServer
  /\ body \in [valid : {TRUE}, data : ContactBodies] \cup {[valid |-> FALSE, data |-> <<>>]}

NextTwice == Next \/ RepairAgain \/ Tick \/ NormalizeJson

SpecTwice == InitTwice /\ [][NextTwice]_vars

\* ------------------------------------------------------------------------
\* What a row's repair is, as a function of the row
\* ------------------------------------------------------------------------

\* What lines 188-208 leave in out[target] for one cell.
CellResult(target, header, val) ==
  LET coerced == _coerce_value(target, val)[1]
  IN  IF target \in {weight_kg, length_m}
        THEN UnitConverted(target, header, val, coerced)
        ELSE coerced

\* The record lines 180-208 build from the row r.
RowRepair(r, hm, headers, sch) ==
  LET f[k \in 0..Len(r)] ==
        IF k = 0 THEN BlankRecord(sch)
        ELSE LET t == HeaderMapGet(hm, k - 1)
             IN  IF t = None THEN f[k - 1]
                 ELSE DictSet(f[k - 1], t, CellResult(t, headers[k], r[k]))
  IN  f[Len(r)]

\* The before/after pair lines 181-208 build from the row r.
RowDiff(r, hm, headers) ==
  LET b[k \in 0..Len(r)] ==
        IF k = 0 THEN EmptyDict
        ELSE LET t == HeaderMapGet(hm, k - 1)
             IN  IF t = None THEN b[k - 1] ELSE DictSet(b[k - 1], t, r[k])
      a[k \in 0..Len(r)] ==
        IF k = 0 THEN EmptyDict
        ELSE LET t == HeaderMapGet(hm, k - 1)
             IN  IF t = None THEN a[k - 1]
                 ELSE DictSet(a[k - 1], t, CellResult(t, headers[k], r[k]))
  IN  [before |-> b[Len(r)], after |-> a[Len(r)]]

\* repair_file has returned a result for a file with a header row.
Returned == pc \in {"returned", "saved"} /\ rows # <<>>

\* ------------------------------------------------------------------------
\* C1
\* ------------------------------------------------------------------------

\* C1: every output record, finished or being built, has exactly the schema's
\* fields as its keys: none is missing and no other key appears.
SchemaClosure ==
  /\ \A i \in DOMAIN out_rows : DOMAIN out_rows[i] = Range(schema)
  /\ pc \in {"cell", "unit"} => DOMAIN out = Range(schema)
  /\ pc \in {"returned", "saved"} =>
       \A i \in DOMAIN result.rows_out : DOMAIN result.rows_out[i] = Range(schema)

\* Two records returned for a file with an unmapped header and a cell that
\* was written.
SchemaClosureWitness ==
  /\ Returned
  /\ run = 1
  /\ Len(result.rows_out) >= 2
  /\ \E i \in DOMAIN header_map : header_map[i] = None
  /\ \E i \in DOMAIN result.rows_out :
       \E f \in Range(schema) : result.rows_out[i][f] # None

\* ------------------------------------------------------------------------
\* C2, C3: failed cells
\* ------------------------------------------------------------------------

\* unit.strip().lower() is in neither table of units.py
UnknownUnit(target, unit) ==
  LET u == Lower(Strip(unit))
  IN  IF target = weight_kg THEN u \notin DOMAIN MASS_UNITS
      ELSE u \notin DOMAIN LENGTH_UNITS

\* The coercion of the cell val under the mapped header fails: _coerce_value
\* returns an error (a decimal, date or currency it cannot read), or the
\* header of a weight or length column carries a unit and the cell is no
\* number or the unit is unknown.  An empty cell is absent, not failed.
CellFails(target, header, val) ==
  LET unit == _extract_header_unit(header)
  IN  /\ Strip(val) # <<>>
      /\ \/ _coerce_value(target, val)[2] # None
         \/ /\ target \in {weight_kg, length_m}
            /\ Truthy(unit)
            /\ UnitNumber(val).raised \/ UnknownUnit(target, unit)

\* Every cell of the row r that lies under a mapped header fails.
AllMappedCellsFail(r) ==
  \A k \in DOMAIN r :
    HeaderMapGet(header_map, k - 1) # None =>
      CellFails(HeaderMapGet(header_map, k - 1), raw_headers[k], r[k])

\* C2: for a file with a header row and n data rows repair_file returns n
\* records and reports rows_in = rows_out = n whatever cells fail, and a row
\* whose mapped cells all fail gives a record with every field absent.
NeverAborts ==
  Returned =>
    /\ Len(result.rows_out) = Len(rows) - 1
    /\ result.summary.rows_in = Len(rows) - 1
    /\ result.summary.rows_out = Len(rows) - 1
    /\ \A i \in DOMAIN result.rows_out :
         AllMappedCellsFail(rows[i + 1]) =>
           \A f \in Range(schema) : result.rows_out[i][f] = None

\* C3: once a mapped cell whose coercion fails has been processed, its field
\* of the record being built is absent: the raw text is never left there.
NoPartialWrites ==
  (pc = "cell" /\ ci > 1) =>
    LET k == ci - 1
        target == HeaderMapGet(header_map, k - 1)
    IN  (target # None /\ CellFails(target, raw_headers[k], rows[ri + 1][k]))
          => out[target] = None

\* ------------------------------------------------------------------------
\* C4
\* ------------------------------------------------------------------------

\* The columns whose header resolves to the field f, before any marking of
\* duplicates.
ColumnsOf(f) == {j \in DOMAIN raw_headers : _guess_header(raw_headers[j], schema) = f}

\* C4: when several headers resolve to one field the earliest wins: the later
\* ones are reported unmapped, and in every record the field holds what the
\* earliest column's cell coerces to.
EarlierHeaderWins ==
  Returned =>
    \A f \in Range(schema) :
      LET cols == ColumnsOf(f)
          j1 == CHOOSE j \in cols : \A j2 \in cols : j <= j2
      IN  cols # {} =>
            /\ \A j \in cols \ {j1} : result.summary.mapped_headers[j - 1] = None
            /\ \A i \in DOMAIN result.rows_out :
                 result.rows_out[i][f] =
                   IF j1 <= Len(rows[i + 1])
                     THEN CellResult(f, raw_headers[j1], rows[i + 1][j1])
                     ELSE None

\* ------------------------------------------------------------------------
\* C5
\* ------------------------------------------------------------------------

\* C5: the i-th record is the repair of the i-th data row: while the rows are
\* processed the records so far are those of the rows so far, in order, and
\* the result holds one record per data row.
OrderPreserved ==
  (pc \in {"row", "returned", "saved"} /\ rows # <<>>) =>
    /\ Len(out_rows) = ri - 1
    /\ \A i \in DOMAIN out_rows :
         out_rows[i] = RowRepair(rows[i + 1], header_map, raw_headers, schema)
    /\ pc \in {"returned", "saved"} =>
         /\ result.rows_out = out_rows
         /\ Len(result.rows_out) = Len(rows) - 1

\* A result of at least three records for rows that differ, the records
\* differing too.
OrderPreservedWitness ==
  /\ Returned
  /\ Len(result.rows_out) >= 3
  /\ rows[2] # rows[3]
  /\ result.rows_out[1] # result.rows_out[2]

\* ------------------------------------------------------------------------
\* C6
\* ------------------------------------------------------------------------

\* C6: the summary reports exactly one decision for every column of the
\* header row, a field of the schema or unmapped; no column is left out and
\* nothing is reported for a column that is not there.
TotalCoverage ==
  Returned =>
    LET mh == result.summary.mapped_headers
    IN  /\ DOMAIN mh = {i - 1 : i \in DOMAIN rows[1]}
        /\ \A i \in DOMAIN mh : mh[i] \in Range(schema) \cup {None}

\* A summary with a mapped and an unmapped column.
TotalCoverageWitness ==
  /\ Returned
  /\ \E i \in DOMAIN result.summary.mapped_headers :
       result.summary.mapped_headers[i] = None
  /\ \E i \in DOMAIN result.summary.mapped_headers :
       result.summary.mapped_headers[i] # None

\* ------------------------------------------------------------------------
\* C7
\* ------------------------------------------------------------------------

\* C7: the engine run on the file its first run saved returns records that
\* render as the first run's do.
Idempotence ==
  (run = 2 /\ pc \in {"returned", "saved"}) => Rendered(result) = Rendered(first)

\* ------------------------------------------------------------------------
\* C8
\* ------------------------------------------------------------------------

\* C8: a second run of repair_file on the same file returns the same records,
\* summary and sample, and two answers of the server to the same body under
\* the same schema name are the same, trace included.
Determinism ==
  /\ (run = 3 /\ pc = "returned") => result = first
  /\ \A i \in DOMAIN replies : \A j \in DOMAIN replies :
       replies[i].status = replies[j].status => replies[i] = replies[j]

\* ------------------------------------------------------------------------
\* C9
\* ------------------------------------------------------------------------

\* Rule 1: the slug is a field of the schema.
ExactRule(slug, sch) == IF slug \in Range(sch) THEN slug ELSE None

\* Rule 2: the slug is the slug of a synonym of a field of the schema; of
\* several such fields the one HEADER_SYNONYMS lists first.
SynonymRule(slug, sch) ==
  LET Is(k) == /\ HEADER_SYNONYMS[k].canonical \in Range(sch)
               /\ \E x \in SynonymSlugs[k] : x = slug
  IN  IF \E k \in DOMAIN HEADER_SYNONYMS : Is(k)
        THEN HEADER_SYNONYMS[CHOOSE k \in DOMAIN HEADER_SYNONYMS :
                               Is(k) /\ \A j \in 1..(k - 1) : ~Is(j)].canonical
        ELSE None

\* The rules in order, the first that gives a field winning; rule 3 applies
\* to the base of "base (unit)" the rules named in onBase.
ResolveInOrder(header, sch, onBase) ==
  LET slug == _slugify(header)
      m == HeaderUnitMatch(header)
      base == _slugify(m.base)
  IN  IF ExactRule(slug, sch) # None THEN ExactRule(slug, sch)
      ELSE IF SynonymRule(slug, sch) # None THEN SynonymRule(slug, sch)
      ELSE IF ~m.matched THEN None
      ELSE IF 1 \in onBase /\ ExactRule(base, sch) # None THEN ExactRule(base, sch)
      ELSE IF 2 \in onBase THEN SynonymRule(base, sch)
      ELSE None

\* C9, as amended: every header is resolved by the rules in order, the first
\* match winning: (1) its slug is a schema field; else (2) its slug is the
\* slug of a synonym of a field of the schema; else (3) it has the form
\* "base (unit)" and rule 2 alone, applied to base, gives a field; else it is
\* unmapped.  The result is a field of the schema or unmapped.
HeaderResolution ==
  \A i \in DOMAIN header_map :
    /\ header_map[i] = ResolveInOrder(raw_headers[i], schema, {2})
    /\ header_map[i] \in Range(schema) \cup {None}

\* A header "base (unit)" resolved by rule 3 to a field other than its base,
\* the base being a field of the schema.
HeaderResolutionWitness ==
  \E i \in DOMAIN header_map :
    LET m == HeaderUnitMatch(raw_headers[i])
    IN  /\ m.matched
        /\ _slugify(m.base) \in Range(schema)
        /\ header_map[i] \in Range(schema)
        /\ header_map[i] # _slugify(m.base)

\* C9, as claimed: rule 3 applies rules 1 and 2 to base.
HeaderResolutionRulesOnBase ==
  \A i \in DOMAIN header_map :
    /\ header_map[i] = ResolveInOrder(raw_headers[i], schema, {1, 2})
    /\ header_map[i] \in Range(schema) \cup {None}

\* ------------------------------------------------------------------------
\* C10
\* ------------------------------------------------------------------------

\* C10: sample_diffs holds the before/after pairs of the first min(n, 5) data
\* rows, in input order, and never more than 5 pairs.
SampleDiffs ==
  /\ Len(sample_diffs) <= SampleCap
  /\ Returned =>
       LET n == Len(rows) - 1
           sd == result.sample_diffs
       IN  /\ Len(sd) = IF n < SampleCap THEN n ELSE SampleCap
           /\ \A i \in DOMAIN sd : sd[i] = RowDiff(rows[i + 1], header_map, raw_headers)

\* More rows than the sample keeps, the sample full.
SampleDiffsWitness ==
  /\ Returned
  /\ Len(result.rows_out) > SampleCap
  /\ Len(result.sample_diffs) = SampleCap
  /\ result.sample_diffs[1] # result.sample_diffs[2]

\* ------------------------------------------------------------------------
\* The webhook server's two endpoints (main.py)
\* ------------------------------------------------------------------------

\* What the framework answers when a handler raises.
InternalError == [status |-> 500, detail |-> "Internal Server Error"]

\* ingest taking any other source for slack
IngestAnySource(b, source, now) ==
  IF ~b.valid THEN [status |-> 400, detail |-> "Invalid JSON"]
  ELSE IF source = "stripe"
    THEN IF StripeRaises(b.data) THEN InternalError
         ELSE [status |-> 200, json |-> normalize_stripe(b.data, now)]
  ELSE IF source = "github"
    THEN IF GithubRaises(b.data) THEN InternalError
         ELSE [status |-> 200, json |-> normalize_github(b.data, now)]
  ELSE IF SlackRaises(b.data) THEN InternalError
  ELSE [status |-> 200, json |-> normalize_slack(b.data, now)]

\* main.py 93-109: POST /v1/webhooks/ingest?source=<source>
ingest(b, source, now) ==
  IF ~b.valid THEN [status |-> 400, detail |-> "Invalid JSON"]
  ELSE IF source = "stripe"
    THEN IF StripeRaises(b.data) THEN InternalError
         ELSE [status |-> 200, json |-> normalize_stripe(b.data, now)]
  ELSE IF source = "github"
    THEN IF GithubRaises(b.data) THEN InternalError
         ELSE [status |-> 200, json |-> normalize_github(b.data, now)]
  ELSE IF source = "slack"
    THEN IF SlackRaises(b.data) THEN InternalError
         ELSE [status |-> 200, json |-> normalize_slack(b.data, now)]
  ELSE [status |-> 400, detail |-> "Unsupported source"]

\* main.py 112-143: POST /v1/json/normalize?schema=<name_>; the values of the
\* object posted are str or None
json_normalize(b, name_) ==
  IF ~b.valid THEN [status |-> 400, detail |-> "Invalid JSON"]
  ELSE IF name_ = "contacts"
    THEN IF ~IsObj(b.data) THEN InternalError
         ELSE [status |-> 200, json |-> ContactRecord(b.data[2])]
  ELSE [status |-> 400, detail |-> "Unsupported schema"]

IngestPath == "/v1/webhooks/ingest"

JsonPath == "/v1/json/normalize"

Ingest ==
  /\ \E source \in Sources : \E b \in WebhookBodies :
       /\ request' = [path |-> IngestPath, param |-> source, body |-> b]
       /\ response' = ingest(b, source, clock)
  /\ UNCHANGED <<clock, body, replies, rvars, kvars>>

JsonNormalize ==
  /\ \E name_ \in SchemaNames : \E b \in ContactPosts :
       /\ request' = [path |-> JsonPath, param |-> name_, body |-> b]
       /\ response' = json_normalize(b, name_)
  /\ UNCHANGED <<clock, body, replies, rvars, kvars>>

\* The server started, the engine idle on an empty file.
InitWebhooks ==
  /\ schema = CANONICAL_SCHEMAS.contacts
  /\ rows = <<>>
  /\ InitRepair
  /\ InitServer
  /\ body = [valid |-> TRUE, data |-> <<>>]

NextWebhooks == Ingest \/ JsonNormalize \/ Tick

SpecWebhooks == InitWebhooks /\ [][NextWebhooks]_vars

\* ------------------------------------------------------------------------
\* C11
\* ------------------------------------------------------------------------

\* The request is structurally wrong: its body is no JSON, or its parameter
\* names no source (no schema) the endpoint knows.
StructuralError ==
  \/ /\ request.path = IngestPath
     /\ ~request.body.valid \/ request.param \notin {"stripe", "github", "slack"}
  \/ /\ request.path = JsonPath
     /\ ~request.body.valid \/ request.param # "contacts"

\* C11: a request to /v1/webhooks/ingest whose body is no JSON or whose source
\* is not stripe, github or slack, and a request to /v1/json/normalize whose
\* body is no JSON or whose schema is not contacts, is answered 400 with no
\* event and no record.
StructuralErrorsAre400 ==
  StructuralError => response.status = 400 /\ "json" \notin DOMAIN response

\* An unsupported source posted with a body that slack's normaliser would
\* have taken.
StructuralErrorsWitness ==
  /\ request.path = IngestPath
  /\ request.param = "gitlab"
  /\ request.body.valid
  /\ request.body.data = SlackReaction
  /\ response.status = 400

\* ------------------------------------------------------------------------
\* C12
\* ------------------------------------------------------------------------

\* What a payload lacks.
Missing == <<"missing">>

\* The value at the path ks of the JSON value v, Missing when a key of the
\* path is not there.
Path(v, ks) ==
  LET f[i \in 0..Len(ks)] ==
        IF i = 0 THEN v
        ELSE IF IsObj(f[i - 1]) /\ ks[i] \in DOMAIN f[i - 1][2] THEN f[i - 1][2][ks[i]]
        ELSE Missing
  IN  f[Len(ks)]

\* The server has answered a webhook of the source given with an event.
Normalized(source) ==
  /\ request.path = IngestPath
  /\ request.param = source
  /\ response.status = 200

SubObject(p, key) == Path(p, <<key>>)

\* C13: the event of a github payload has subject.type "issue" when the
\* payload carries an issue and "pull_request" when it carries a
\* pull_request, subject id and number and metadata.title are those of that
\* sub-object, and action is the payload's action.
GithubMapping ==
  Normalized("github") =>
    LET p == request.body.data
        ev == response.json
        Agrees(key, type) ==
          LET sub == SubObject(p, key)
          IN  IsObj(sub) =>
                /\ ev.subject.type = type
                /\ \A k \in {"id", "number"} \cap DOMAIN sub[2] : ev.subject[k] = sub[2][k]
                /\ "title" \in DOMAIN sub[2] => ev.metadata.title = sub[2]["title"]
    IN  /\ Agrees("issue", <<"i","s","s","u","e">>)
        /\ ~IsObj(SubObject(p, "issue")) => Agrees("pull_request", <<"p","u","l","l","_","r","e","q","u","e","s","t">>)
        /\ Path(p, <<"action">>) # Missing => ev.action = Path(p, <<"action">>)

\* ------------------------------------------------------------------------
\* C14
\* ------------------------------------------------------------------------

\* The mapping of a vendor's payload: each source field, as a path in the
\* payload, with the field of the event it goes to.
FieldMapping(source, ev) ==
  IF source = "stripe"
    THEN {<<<<"id">>, ev.event_id>>,
          <<<<"type">>, ev.action>>,
          <<<<"data", "object", "customer">>, ev.actor.id>>,
          <<<<"data", "object", "object">>, ev.subject.type>>,
          <<<<"data", "object", "id">>, ev.subject.id>>}
  ELSE IF source = "github"
    THEN {<<<<"id">>, ev.event_id>>,
          <<<<"action">>, ev.action>>,
          <<<<"sender", "id">>, ev.actor.id>>,
          <<<<"sender", "login">>, ev.actor.login>>,
          <<<<"issue", "id">>, ev.subject.id>>,
          <<<<"issue", "number">>, ev.subject.number>>,
          <<<<"issue", "title">>, ev.metadata.title>>,
          <<<<"issue", "html_url">>, ev.metadata.url>>}
  ELSE {<<<<"event_id">>, ev.event_id>>,
        <<<<"event", "type">>, ev.action>>,
        <<<<"event", "type">>, ev.subject.type>>,
        <<<<"event", "user">>, ev.actor.id>>,
        <<<<"event", "channel">>, ev.subject.channel>>}

\* C14: in the event of a stripe, github or slack payload, a field whose
\* source field the payload lacks is absent (None); it holds no placeholder.
MissingIsAbsent ==
  \A source \in {"stripe", "github", "slack"} :
    Normalized(source) =>
      \A m \in FieldMapping(source, response.json) :
        Path(request.body.data, m[1]) = Missing => m[2] = None

\* ------------------------------------------------------------------------
\* C15
\* ------------------------------------------------------------------------

\* The trace of the event holds a timestamp_fallback entry.
HasFallback(ev) == \E i \in DOMAIN ev.trace : ev.trace[i].op = "timestamp_fallback"

\* The key of the timestamp in a vendor's payload.
TimestampKey(source) == IF source = "stripe" THEN "created" ELSE "event_time"

\* C15: when the timestamp of a stripe or slack payload is missing or cannot
\* be converted, occurred_at is the UTC time of the handling and the trace
\* holds a timestamp_fallback entry; when it is valid, occurred_at is its UTC
\* conversion and the trace holds no such entry.
TimestampFallback ==
  \A source \in {"stripe", "slack"} :
    Normalized(source) =>
      LET ts == Path(request.body.data, <<TimestampKey(source)>>)
          ev == response.json
      IN  IF ts = Missing \/ ~Converts(ts)
            THEN /\ \E t \in 0..clock : ev.occurred_at = NowIso(t)
                 /\ HasFallback(ev)
            ELSE /\ ev.occurred_at = _utc_ts(ts, clock)
                 /\ ~HasFallback(ev)

\* ------------------------------------------------------------------------
\* C16
\* ------------------------------------------------------------------------

\* The text before and after the first whitespace character of s.
SplitAtWhitespace(s) ==
  LET at == {i \in DOMAIN s : IsSpace(s[i])}
      i == CHOOSE x \in at : \A y \in at : x <= y
  IN  <<SubSeq(s, 1, i - 1), SubSeq(s, i + 1, Len(s))>>

\* C16: when the object posted carries a name and neither first_name nor
\* last_name, the record's names are those of "Last, First" if the name holds
\* a comma, else those of "First Last" split at the first whitespace, else
\* first_name is the single token and last_name is absent; the trace holds
\* split_name.
NameSplitting ==
  (request.path = JsonPath /\ request.param = "contacts" /\ response.status = 200) =>
    LET data == request.body.data[2]
        rec == response.json
        name_ == Strip(FirstTruthy(data, <<"name", "Name">>, <<>>))
    IN  (name_ # <<>> /\ DOMAIN data \cap {"first_name", "last_name"} = {}) =>
          /\ \E i \in DOMAIN rec.trace : rec.trace[i].op = "split_name"
          /\ IF "," \in Range(name_)
               THEN /\ rec.last_name = OrNone(Strip(SplitOnce(name_, ",")[1]))
                    /\ rec.first_name = OrNone(Strip(SplitOnce(name_, ",")[2]))
             ELSE IF \E i \in DOMAIN name_ : IsSpace(name_[i])
               THEN /\ rec.first_name = SplitAtWhitespace(name_)[1]
                    /\ rec.last_name = SplitAtWhitespace(name_)[2]
             ELSE rec.first_name = name_ /\ rec.last_name = None

\* ------------------------------------------------------------------------
\* The metered server (main_saas_backup.py): the key store
\* ------------------------------------------------------------------------
\* balances.json is [complete, data]: complete when its text is a whole JSON
\* object, data the key -> balance map it then holds.

\* KeyStore._read, lines 69-73: {} when the text cannot be loaded
_read(f) == IF f.complete THEN f.data ELSE <<>>

\* KeyStore.get_balance, lines 80-81
get_balance(f, key) == IF key \in DOMAIN _read(f) THEN _read(f)[key] ELSE 0

\* set_balance writing the key alone, without the read of line 84
SetBalanceAlone(f, key, value) == (key :> value)

\* KeyStore.set_balance, lines 83-85: the map handed to _write
set_balance(f, key, value) == DictSet(_read(f), key, value)

\* The API keys of the requests.
k1 == <<"k","1">>

k2 == <<"k","2">>

\* The balances the store starts with.
Seed == (k1 :> 1) @@ (k2 :> 0)

\* The values of the Authorization header: none, two well-formed ones, one
\* that names no scheme.
Authorizations == {None, <<"B","e","a","r","e","r"," ","k","1">>, <<"b","e","a","r","e","r"," ","k","2">>, <<"k","1">>}

\* authorization.lower().startswith("bearer ")
IsBearer(authorization) ==
  /\ Len(authorization) >= 7
  /\ Lower(SubSeq(authorization, 1, 7)) = <<"b","e","a","r","e","r"," ">>

\* require_api_key, lines 119-123: the key, or None for the 401
require_api_key(authorization) ==
  IF authorization = None \/ authorization = <<>> \/ ~IsBearer(authorization) THEN None
  ELSE SplitOnce(authorization, " ")[2]

\* The requests made of the metered server: webhooks and contact objects
\* under an Authorization header, and credits granted by the administrator
\* (token: whether X-Admin-Token is the administrator's).
MeteredRequests ==
  [kind : {"ingest"}, authorization : Authorizations, param : {"stripe", "gitlab"},
   body : {[valid |-> TRUE, data |-> StripeCharge], InvalidBody}]
  \cup
  [kind : {"json"}, authorization : Authorizations, param : {"contacts"},
   body : {[valid |-> TRUE, data |-> JObj("name" :> <<"D","o","e",","," ","J","a","n","e">>)]}]
  \cup
  [kind : {"credit"}, api_key : {k1, k2}, amount : {2}, token : BOOLEAN]

\* The most requests the metered server is sent.
MaxRequests == 2

\* Refusal with the checks made after charge_credit: nothing is refused
\* before the store is charged
ChargeBeforeChecks(r) == NoResponse

\* What a handler answers without touching the store, NoResponse when it goes
\* on to charge_credit: lines 314-326 of ingest, 334-340 and 364 of
\* json_normalize, 232-233 of admin_credit.
Refusal(r) ==
  IF r.kind = "credit"
    THEN IF r.token THEN NoResponse ELSE [status |-> 401, detail |-> "unauthorized"]
  ELSE IF r.kind = "ingest" THEN
    LET a == ingest(r.body, r.param, 0)
    IN  IF a.status = 200 THEN NoResponse ELSE a
  ELSE
    LET a == json_normalize(r.body, r.param)
    IN  IF a.status = 200 THEN NoResponse ELSE a

\* What the handler answers once the store is written, or is left alone:
\* lines 329 and 362, and 234-235 of admin_credit.
Answer(r, now, balance) ==
  IF r.kind = "credit"
    THEN [status |-> 200, json |-> [api_key |-> r.api_key, balance |-> balance]]
  ELSE IF r.kind = "ingest" THEN ingest(r.body, r.param, now)
  ELSE json_normalize(r.body, r.param)

\* The key whose balance the request is about.
KeyOf(r) == IF r.kind = "credit" THEN r.api_key ELSE require_api_key(r.authorization)

\* charge_credit charging without the tests of lines 128 and 95
ChargeCreditUnchecked(f, key) == [delta |-> -1, refused |-> FALSE]

\* charge_credit, lines 126-131, with KeyStore.charge, lines 93-99: the
\* change of the key's balance, 0 when the store is left alone, and the
\* answer 402 of a charge on an empty balance.
charge_credit(f, key) ==
  IF get_balance(f, key) > 0
    THEN IF get_balance(f, key) <= 0
           THEN [delta |-> 0, refused |-> TRUE]
           ELSE [delta |-> -1, refused |-> FALSE]
    ELSE [delta |-> 0, refused |-> FALSE]

OutOfCredits == [status |-> 402, detail |-> "Out of credits"]

\* An entry of the answers: the request, the balance its handler read, the
\* change it wrote, the answer, and how many other requests were awaiting
\* their body while its handler ran.
Served(r, bal, delta, reply, others) ==
  [req |-> r, bal |-> bal, delta |-> delta, reply |-> reply, others |-> others]

\* A request arrives: the dependency require_api_key answers 401 at once, or
\* the handler starts and awaits the body.
Arrive ==
  /\ Len(served) + Len(pending) + (IF handler.pc = "idle" THEN 0 ELSE 1) < MaxRequests
  /\ \E r \in MeteredRequests :
       IF r.kind # "credit" /\ KeyOf(r) = None
         THEN /\ served' = Append(served,
                     Served(r, 0, 0, [status |-> 401, detail |-> "Missing API key"],
                            Len(pending)))
              /\ UNCHANGED pending
         ELSE /\ pending' = Append(pending, r)
              /\ UNCHANGED served
  /\ UNCHANGED <<file, tmp, handler, clock, body, replies, rvars, wvars>>

\* pending without its i-th request
Drop(q, i) == SubSeq(q, 1, i - 1) \o SubSeq(q, i + 1, Len(q))

\* The body of one pending request is there and its handler runs, with no
\* await, up to its answer or up to KeyStore._write.
Serve ==
  /\ handler.pc = "idle"
  /\ \E i \in DOMAIN pending :
       LET r == pending[i]
           key == KeyOf(r)
           bal == get_balance(file, key)
           charge == charge_credit(file, key)
           delta == IF r.kind = "credit" THEN r.amount ELSE charge.delta
       IN  /\ pending' = Drop(pending, i)
           /\ IF Refusal(r).status # 0
                THEN /\ served' = Append(served, Served(r, bal, 0, Refusal(r), Len(pending) - 1))
                     /\ UNCHANGED handler
              ELSE IF r.kind # "credit" /\ charge.refused
                THEN /\ served' = Append(served, Served(r, bal, 0, OutOfCredits, Len(pending) - 1))
                     /\ UNCHANGED handler
              ELSE IF delta = 0 /\ r.kind # "credit"
                THEN /\ served' = Append(served, Served(r, bal, 0, Answer(r, clock, bal),
                                                 Len(pending) - 1))
                     /\ UNCHANGED handler
              ELSE /\ handler' = [pc |-> "write",
                                  entry |-> Served(r, bal, delta, Answer(r, clock, bal + delta),
                                                  Len(pending) - 1),
                                  before |-> _read(file),
                                  data |-> set_balance(file, key, bal + delta)]
                   /\ UNCHANGED served
  /\ UNCHANGED <<file, tmp, clock, body, replies, rvars, wvars>>

\* WriteBegin truncating balances.json itself: tmp = self.path
WriteBeginInPlace ==
  /\ handler.pc = "write"
  /\ file' = [complete |-> FALSE, data |-> <<>>]
  /\ handler' = [handler EXCEPT !.pc = "writing"]
  /\ UNCHANGED <<tmp, pending, served, clock, body, replies, rvars, wvars>>

\* KeyStore._write, lines 76-77: tmp.write_text opens balances.tmp, emptying
\* it, and has written a part of the text
WriteBegin ==
  /\ handler.pc = "write"
  /\ tmp' = [state |-> "partial", data |-> <<>>]
  /\ handler' = [handler EXCEPT !.pc = "writing"]
  /\ UNCHANGED <<file, pending, served, clock, body, replies, rvars, wvars>>

\* line 77: the text is written whole and the file closed
WriteEnd ==
  /\ handler.pc = "writing"
  /\ tmp' = [state |-> "complete", data |-> handler.data]
  /\ handler' = [handler EXCEPT !.pc = "replace"]
  /\ UNCHANGED <<file, pending, served, clock, body, replies, rvars, wvars>>

\* line 78: tmp.replace(self.path), then the handler returns its answer
Replace ==
  /\ handler.pc = "replace"
  /\ file' = [complete |-> tmp.state = "complete", data |-> tmp.data]
  /\ tmp' = NoTmp
  /\ served' = Append(served, handler.entry)
  /\ handler' = Idle
  /\ UNCHANGED <<pending, clock, body, replies, rvars, wvars>>

\* The process dies and is started again: what it was doing is gone, the
\* files are as they were, and KeyStore.__init__ (lines 64-67) finds
\* balances.json there.
Crash ==
  /\ handler.pc # "idle" \/ pending # <<>>
  /\ handler' = Idle
  /\ pending' = <<>>
  /\ UNCHANGED <<file, tmp, served, clock, body, replies, rvars, wvars>>

\* The metered server started on the seeded store, the engine idle.
InitMetered ==
  /\ schema = CANONICAL_SCHEMAS.contacts
  /\ rows = <<>>
  /\ InitRepair
  /\ clock = 0
  /\ replies = <<>>
  /\ request = NoRequest
  /\ response = NoResponse
  /\ body = [valid |-> TRUE, data |-> <<>>]
  /\ InitStore(Seed)

NextMetered == Arrive \/ Serve \/ WriteBegin \/ WriteEnd \/ Replace \/ Crash

SpecMetered == InitMetered /\ [][NextMetered]_vars

\* C17: in the metered server a request to /v1/webhooks/ingest or
\* /v1/json/normalize whose API key has balance 0 is answered 402 'Out of
\* credits' and is not served: no such request is answered 200.
OutOfCreditsRefused ==
  \A i \in DOMAIN served :
    (served[i].req.kind \in {"ingest", "json"} /\ served[i].reply.status \notin {400, 401, 500}
       /\ served[i].bal = 0)
      => served[i].reply = OutOfCredits

\* C18: whatever step of a store write the process crashes at, balances.json
\* holds the complete map of before the write or the complete new one, never
\* a partial or empty one, and no key of the store is lost.
CrashSafeStore ==
  /\ file.complete
  /\ handler.pc # "idle" => file.data \in {handler.before, handler.data}
  /\ DOMAIN Seed \subseteq DOMAIN _read(file)

\* The process has crashed in the middle of a write: balances.tmp is left
\* behind, partly or wholly written, and no handler runs.
CrashSafeStoreWitness ==
  /\ handler.pc = "idle"
  /\ tmp.state = "partial"
  /\ \E i \in DOMAIN served : served[i].delta # 0

RECURSIVE Changes(_, _)
\* The sum of the changes the answered requests wrote to the key's balance.
Changes(log, key) ==
  IF log = <<>> THEN 0
  ELSE (IF KeyOf(Head(log).req) = key THEN Head(log).delta ELSE 0) + Changes(Tail(log), key)

\* C19: however the add_credits and charge operations of concurrent
\* requests interleave, no update is lost: each key's balance is its initial
\* balance plus the credits added minus the credits charged.
NoLostUpdate ==
  \A key \in {k1, k2} : get_balance(file, key) = Seed[key] + Changes(served, key)

\* Two requests on the same key were in flight together and both wrote the
\* key's balance.
NoLostUpdateWitness ==
  /\ Len(served) = 2
  /\ served[1].delta # 0 /\ served[2].delta # 0
  /\ served[1].others = 1
  /\ KeyOf(served[1].req) = KeyOf(served[2].req)
  /\ served[1].req.kind # served[2].req.kind

\* C20: within one record a field of the output record makes one transition
\* at most: once a cell of the row has set it, no later cell of the row and
\* no later step, such as the unit conversion, writes another value to it.
FieldSetOnce ==
  [][\A f \in DOMAIN after \cap DOMAIN after' :
       (pc \in {"cell", "unit"} /\ ri' = ri) => out'[f] = out[f]]_vars

\* What the claim has a phone value become: its digits, absent when there
\* are none.
DigitsOrAbsent(v) == IF OnlyDigits(v) = <<>> THEN None ELSE OnlyDigits(v)

\* C21: phone coercion strips every non-digit character, and a phone value
\* with no digit at all becomes absent, not an empty string, in the tabular
\* coercer (the cell last written to phone) and in the JSON contact
\* normaliser (the phone of the answer).
PhoneDigitsOrAbsent ==
  /\ phone \in DOMAIN after => after[phone] = DigitsOrAbsent(before[phone])
  /\ (request.path = JsonPath /\ request.param = "contacts" /\ response.status = 200) =>
       response.json.phone =
         DigitsOrAbsent(FirstTruthy(request.body.data[2], <<"phone", "Phone">>, <<>>))

\* The keys either state of the store knows.
KeysOfStep == DOMAIN _read(file) \cup DOMAIN _read(file') \cup {k1, k2}

\* The answer this step gives, when it gives one.
Answered == Len(served') = Len(served) + 1

\* C22: in the metered server a request is charged only when it is served:
\* balances.json changes only in a step that answers 200; a request answered
\* 400 or 401 leaves every key's balance as it was; and a webhook or
\* contact request served for a key of positive balance takes exactly 1
\* from that key's balance and changes no other key's.
ChargedOnlyWhenServed ==
  [][/\ file' # file => (Answered /\ served'[Len(served')].reply.status = 200)
     /\ Answered =>
          LET e == served'[Len(served')]
              key == KeyOf(e.req)
          IN  /\ e.reply.status \in {400, 401} =>
                   \A k \in KeysOfStep : get_balance(file', k) = get_balance(file, k)
              /\ (e.req.kind \in {"ingest", "json"} /\ e.reply.status = 200
                    /\ get_balance(file, key) > 0) =>
                   /\ get_balance(file', key) = get_balance(file, key) - 1
                   /\ \A k \in KeysOfStep \ {key} :
                        get_balance(file', k) = get_balance(file, k)]_vars

\* One request was refused with 400 and another served for a key that had
\* credits.
ChargedOnlyWhenServedWitness ==
  /\ \E i \in DOMAIN served : served[i].reply.status = 400 /\ served[i].bal > 0
  /\ \E i \in DOMAIN served :
       /\ served[i].req.kind \in {"ingest", "json"}
       /\ served[i].reply.status = 200
       /\ served[i].bal > 0

\* C23: from a store whose balances are all >= 0, whatever metered requests
\* are charged through charge_credit and whatever non-negative amounts
\* add_credits adds, in any order, every key's balance stays >= 0.
BalancesNeverNegative ==
  \A key \in DOMAIN _read(file) \cup {k1, k2} : get_balance(file, key) >= 0

\* A key has been charged down to 0, and a key has been given credits.
BalancesNeverNegativeWitness ==
  /\ \E i \in DOMAIN served :
       served[i].delta = -1 /\ get_balance(file, KeyOf(served[i].req)) = 0
  /\ \E i \in DOMAIN served : served[i].req.kind = "credit" /\ served[i].delta > 0

====
